---- MODULE Spec2Model ----
(***************************************************************************)
(* Routing core of one vault/client node: the inbound classification of   *)
(* MessageHandler, the outbound dispatch of NetworkUtils and the          *)
(* group-change handler, over a small XOR address space.                  *)
(***************************************************************************)
EXTENDS Integers, Sequences, FiniteSets, TLC

(***************************************************************************)
(* Bounds of the model.                                                    *)
(***************************************************************************)
\* node ids are 1..MaxId, message targets 0..MaxId+1 (0 is the zero id)
MaxId == 5
\* Parameters::max_routing_table_size, scaled down
MaxRT == 3
\* Parameters::closest_nodes_size, scaled down
ClosestNodesSize == 2
\* Parameters::node_group_size, scaled down
NodeGroupSize == 3
\* Parameters::hops_to_live, scaled down
HopsToLive == 2
\* Parameters::max_route_history, scaled down
MaxRouteHistory == 2
\* rows of the group matrix that carry entries at one time
MaxFilledRows == 1
\* connections one client id may hold in the non-routing table
MaxClientConns == 1
\* update subscribers held at one time
MaxSubs == 1
\* transport sends followed for one outbound message
MaxSends == 4
\* nodes a message is followed through
MaxForwards == 3
\* updates one peer is followed sending to this node
MaxUpdates == 2

(***************************************************************************)
(* Identifiers.                                                            *)
(***************************************************************************)
\* routing_table_.kNodeId()
Self == 4
\* the id of the one client this node may serve
ClientId == MaxId + 2
\* network_.bootstrap_connection_id()
BootstrapConn == MaxId + 3
\* an unset optional id field
NoId == -1
\* an id field set to the empty string
EmptyStr == -2
\* NodeId(), the zero id
ZeroId == 0

NodeIds == 1..MaxId
Peers == NodeIds \ {Self}
Targets == 0..(MaxId + 1)

RECURSIVE XorBits(_, _)
XorBits(a, b) ==
  IF a = 0 THEN b
  ELSE IF b = 0 THEN a
  ELSE (((a % 2) + (b % 2)) % 2) + (2 * XorBits(a \div 2, b \div 2))

\* NodeId operator^ over every id of the model
XorTable == [a \in 0..(MaxId + 2), b \in 0..(MaxId + 2) |-> XorBits(a, b)]
Xor(a, b) == XorTable[a, b]

CloserToTarget(a, b, t) == Xor(a, t) < Xor(b, t)

\* the member of the non-empty set S closest to t
ClosestOf(S, t) == CHOOSE x \in S : \A y \in S : Xor(x, t) <= Xor(y, t)

RECURSIVE SortFromTarget(_, _)
SortFromTarget(S, t) ==
  IF S = {} THEN << >>
  ELSE LET x == ClosestOf(S, t) IN << x >> \o SortFromTarget(S \ {x}, t)

Take(s, n) == SubSeq(s, 1, IF n < Len(s) THEN n ELSE Len(s))
Range(s) == { s[i] : i \in 1..Len(s) }
Tail0(s) == IF s = << >> THEN << >> ELSE Tail(s)

(***************************************************************************)
(* Routing table, non-routing table and group matrix (their code is not   *)
(* part of the examined sources; modelled from sections 3, 4.1-4.3).      *)
(***************************************************************************)
\* NodeInfo of a routing-table peer: its connection id is its node id
NodeInfo(id) == [node_id |-> id, connection_id |-> id]

\* NonRoutingTable entries: one per connection of the client
ClientConns == { [node_id |-> ClientId, connection_id |-> (100 + k)] : k \in 1..MaxClientConns }

\* RoutingTable::IsConnected
RtIsConnected(rt, id) == id \in rt

\* NonRoutingTable::IsConnected
NrtIsConnected(nrt, id) == \E e \in nrt : e.node_id = id

\* NonRoutingTable::GetNodesInfo
NrtGetNodesInfo(nrt, id) == { e \in nrt : e.node_id = id }

\* RoutingTable::GetClosestNodes(target, n): up to n ids ordered by XOR to target
GetClosestNodes(rt, target, n) == Take(SortFromTarget(rt, target), n)

\* RoutingTable::GetClosestNodeInfo(self, n)
GetClosestNodeInfo(rt, n) == GetClosestNodes(rt, Self, n)

\* RoutingTable::GetClosestNode(target, exclude, ignore_exact_match): NoId when none
GetClosestNode(rt, target, exclude, ignore_exact_match) ==
  LET cand == { p \in rt : p \notin exclude /\ ~(ignore_exact_match /\ p = target) }
  IN IF cand = {} THEN NoId ELSE ClosestOf(cand, target)

\* RoutingTable::IsThisNodeClosestTo(target, ignore_exact_match)
IsThisNodeClosestTo(rt, target, ignore_exact_match) ==
  ~ \E p \in rt : \/ Xor(p, target) < Xor(Self, target)
                  \/ (ignore_exact_match /\ Xor(p, target) = Xor(Self, target))

\* RoutingTable::IsThisNodeInRange(target, n)
IsThisNodeInRange(rt, target, n) ==
  Cardinality({ p \in rt : CloserToTarget(p, Self, target) }) < n

\* the row keys of the group matrix: the closest_nodes_size closest peers
RowKeys(rt) == Range(GetClosestNodes(rt, Self, ClosestNodesSize))

\* GroupMatrix::GetUniqueNodes, with this node and its own row
UniqueNodes(rt, gm) == {Self} \cup rt \cup UNION { gm[k] : k \in DOMAIN gm }

\* RoutingTable::IsThisNodeGroupLeader: the leader output, Self when this node leads
GroupLeader(rt, gm, target) ==
  LET cand == UniqueNodes(rt, gm) \ {target}
      best == ClosestOf(cand, target)
      owners == { k \in DOMAIN gm : best \in gm[k] }
  IN IF cand = {} THEN Self
     ELSE IF best = Self \/ best \in rt \/ owners = {} THEN Self
     ELSE ClosestOf(owners, target)

IsThisNodeGroupLeader(rt, gm, target) == GroupLeader(rt, gm, target) = Self

\* RoutingTable::GetNodesNeedingGroupUpdates: peers whose row contains this node
GetNodesNeedingGroupUpdates(rt, gm) == { k \in DOMAIN gm : Self \in gm[k] }

\* GroupMatrix::UpdateFromConnectedPeer: replace the row keyed by peer
GroupUpdateFromConnectedPeer(gm, peer, close_nodes) ==
  IF peer \in DOMAIN gm THEN [gm EXCEPT ![peer] = close_nodes] ELSE gm

\* the matrix after the routing table changed: rows follow the row keys
ResizeMatrix(gm, rt) ==
  [k \in RowKeys(rt) |-> IF k \in DOMAIN gm THEN gm[k] ELSE {}]

FilledRows(gm) == Cardinality({ k \in DOMAIN gm : gm[k] # {} })

(***************************************************************************)
(* Messages (protobuf::Message).                                           *)
(***************************************************************************)
MessageTypes == {"Ping", "ClosestNodesUpdate", "ClosestNodesUpdateSubscribe", "App", "Unknown"}

BaseMessage ==
  [id |-> 1, type |-> "Ping", routing_message |-> FALSE,
   source_id |-> 1, destination_id |-> Self, relay_id |-> NoId,
   request |-> TRUE, direct |-> TRUE, has_visited |-> FALSE, visited |-> FALSE,
   client_node |-> FALSE, replication |-> 1, hops_to_live |-> HopsToLive,
   route_history |-> << >>, cacheable |-> FALSE, initialized |-> TRUE,
   data |-> "req", upd_node |-> NoId, upd_nodes |-> {}, subscribe |-> FALSE]

\* protobuf::Message::Clear
ClearMessage(m) ==
  [BaseMessage EXCEPT !.id = 0, !.type = "Unknown", !.source_id = NoId,
                      !.destination_id = NoId, !.request = FALSE, !.direct = FALSE,
                      !.replication = 0, !.hops_to_live = 0, !.initialized = FALSE,
                      !.data = "none"]

IsRequest(m) == m.request
IsResponse(m) == ~m.request
IsDirect(m) == m.direct
IsRoutingMessage(m) == m.routing_message
IsNodeLevelMessage(m) == ~m.routing_message
IsCacheable(m) == m.cacheable

\* utils ValidateMessage: initialised and hops left
ValidateMessage(m) == m.initialized /\ m.hops_to_live > 0

\* rpcs::ClosestNodesUpdateSubscrirbe(node_id, my_node_id, subscribe)
SubscribeRpc(node_id, subscribe) ==
  [BaseMessage EXCEPT !.id = 2, !.type = "ClosestNodesUpdateSubscribe",
                      !.routing_message = TRUE,
                      !.source_id = Self, !.destination_id = node_id,
                      !.upd_node = Self, !.subscribe = subscribe, !.data = "rpc"]

\* rpcs::ClosestNodesUpdateRequest(node_id, my_node_id, closest_nodes)
ClosestNodesUpdateRequest(node_id, closest_nodes) ==
  [BaseMessage EXCEPT !.id = 2, !.type = "ClosestNodesUpdate", !.routing_message = TRUE,
                      !.source_id = Self, !.destination_id = node_id,
                      !.upd_node = Self, !.upd_nodes = closest_nodes, !.data = "rpc"]

(***************************************************************************)
(* The frame of one handler run: the node's tables, the message the       *)
(* handler holds by reference, and what the run has done so far.          *)
(*   calls : SendToClosestNode / SendToDirect invocations, in order       *)
(*   sent  : rudp Send invocations, in order                              *)
(*   log   : local dispatches (application, routing service, timer, cache)*)
(*   path  : the handlers entered, in order                               *)
(*   ops   : rudp Remove and on_connection_lost invocations, in order     *)
(*   done  : the send completions the transport has reported, in order    *)
(*   fault : "none", "assert" (a failed assertion), "ub" or "throw"       *)
(*   env   : what the collaborators decide during the run                 *)
(***************************************************************************)
Enter(c, name) == [c EXCEPT !.path = Append(@, name)]
Log(c, kind, m) ==
  [c EXCEPT !.log = Append(@, [kind |-> kind, msg |-> m, at |-> Len(c.calls)])]
Fault(c, f) == [c EXCEPT !.fault = f]

\* NodeId(string), where the string is no id: the zero id
TargetOf(id) == IF id < 0 THEN ZeroId ELSE id

(***************************************************************************)
(* NetworkUtils                                                            *)
(***************************************************************************)
\* NetworkUtils::Stop running on another thread while a send is under way: it
\* takes the write guard at the point env.stop names
StopAt(c, point) == IF c.env.stop = point THEN [c EXCEPT !.stopped = TRUE] ELSE c

\* rudp_->Send(peer, bytes, functor); after_stop: rudp_ has been reset by Stop;
\* rt: the routing table at that moment
RudpTransportSend(c, conn, m, functor, attempt) ==
  [c EXCEPT !.sent = Append(@, [conn |-> conn, msg |-> m, functor |-> functor,
                                attempt |-> attempt, after_stop |-> c.stopped,
                                rt |-> c.rt])]

\* rudp_->Remove(peer)
RudpRemove(c, conn) ==
  [c EXCEPT !.ops = Append(@, [op |-> "Remove", conn |-> conn, at |-> Len(c.sent),
                               after_stop |-> c.stopped])]

\* connection_lost_functor_: the lost peer leaves the tables
ConnectionLost(c, conn) ==
  LET rt1 == c.rt \ {conn}
  IN [c EXCEPT !.rt = rt1,
               !.nrt = { e \in @ : e.connection_id # conn },
               !.gm = ResizeMatrix(@, rt1),
               !.subs = SelectSeq(@, LAMBDA n : n # conn)]

\* NetworkUtils::OnConnectionLost
OnConnectionLost(c, conn) ==
  ConnectionLost([c EXCEPT !.ops = Append(@, [op |-> "OnConnectionLost", conn |-> conn,
                                              at |-> Len(c.sent),
                                              after_stop |-> c.stopped])],
                 conn)

\* NetworkUtils::RudpSend
RudpSend(c, m, conn, functor, attempt) ==
  IF ~c.stopped THEN RudpTransportSend(c, conn, m, functor, attempt) ELSE c

\* NetworkUtils::SendTo: rudp_ is used without the guard
SendTo(c, m, peer) ==
  IF c.stopped THEN Fault(RudpTransportSend(c, peer, m, "SendTo", 0), "ub")
  ELSE RudpTransportSend(c, peer, m, "SendTo", 0)

\* NetworkUtils::SendToDirect(message, peer, message_sent_functor)
SendToDirectFunctor(c, m, peer) ==
  IF c.stopped THEN c ELSE RudpTransportSend(c, peer, m, "caller", 0)

\* NetworkUtils::SendToDirect(message, peer)
SendToDirectPeer(c, m, peer) == SendTo(c, m, peer)

\* NetworkUtils::SendToDirect(message, peer_node_id, peer_connection_id)
SendToDirect(c, m, peer, conn) ==
  LET c1 == [c EXCEPT !.calls = Append(@, [op |-> "SendToDirect", peer |-> peer,
                                           conn |-> conn, msg |-> m])]
  IN IF c.stopped THEN c1 ELSE RudpTransportSend(c1, conn, m, "SendTo", 0)

\* the route history grows by self at every node
AdjustRouteHistoryAlwaysAppend(m, self) ==
  LET rh == Append(m.route_history, self)
  IN [m EXCEPT !.route_history = IF Len(rh) > MaxRouteHistory THEN Tail(rh) ELSE rh]

\* NetworkUtils::AdjustRouteHistory, at the node whose id is self
AdjustRouteHistoryAt(m, self) ==
  IF self \in Range(m.route_history) THEN m
  ELSE LET rh == Append(m.route_history, self)
       IN [m EXCEPT !.route_history =
                      IF Len(rh) > MaxRouteHistory THEN Tail(rh) ELSE rh]

\* NetworkUtils::AdjustRouteHistory
AdjustRouteHistory(m) == AdjustRouteHistoryAt(m, Self)

\* no route history handed to GetClosestNode
ExcludedHistoryNone(m) == {}

\* the route history RecursiveSendOn hands to GetClosestNode
ExcludedHistory(m) ==
  LET rh == m.route_history
  IN IF Len(rh) > 1 THEN Range(SubSeq(rh, 1, Len(rh) - 1))
     ELSE IF Len(rh) = 1 /\ rh[1] # Self THEN {rh[1]}
     ELSE {}

\* the peer is given up after the second failed attempt
RecursiveSendOnEvictEarly(c, m, last_node_attempted, attempt_count) ==
  IF c.stopped THEN c
  ELSE LET c1 == IF attempt_count >= 2
                   THEN OnConnectionLost(StopAt(RudpRemove(c, last_node_attempted),
                                                "after_remove"),
                                         last_node_attempted)
                 ELSE c
           attempt == IF attempt_count >= 2 THEN 0 ELSE attempt_count
           closest_node == GetClosestNode(c1.rt, TargetOf(m.destination_id),
                                          ExcludedHistory(m), ~IsDirect(m))
       IN IF closest_node = NoId THEN c1
          ELSE RudpSend(StopAt(c1, "before_send"), AdjustRouteHistory(m),
                        NodeInfo(closest_node).connection_id, "RecursiveSendOn", attempt)

\* the send goes ahead whatever GetClosestNode returned
RecursiveSendOnUnchecked(c, m, last_node_attempted, attempt_count) ==
  IF c.stopped THEN c
  ELSE LET c1 == IF attempt_count >= 3
                   THEN OnConnectionLost(StopAt(RudpRemove(c, last_node_attempted),
                                                "after_remove"),
                                         last_node_attempted)
                 ELSE c
           attempt == IF attempt_count >= 3 THEN 0 ELSE attempt_count
           closest_node == GetClosestNode(c1.rt, TargetOf(m.destination_id),
                                          ExcludedHistory(m), ~IsDirect(m))
       IN RudpSend(StopAt(c1, "before_send"), AdjustRouteHistory(m),
                   NodeInfo(closest_node).connection_id, "RecursiveSendOn", attempt)

\* NetworkUtils::RecursiveSendOn(message, last_node_attempted, attempt_count)
RecursiveSendOn(c, m, last_node_attempted, attempt_count) ==
  IF c.stopped THEN c
  ELSE LET c1 == IF attempt_count >= 3
                   THEN OnConnectionLost(StopAt(RudpRemove(c, last_node_attempted),
                                                "after_remove"),
                                         last_node_attempted)
                 ELSE c
           attempt == IF attempt_count >= 3 THEN 0 ELSE attempt_count
           closest_node == GetClosestNode(c1.rt, TargetOf(m.destination_id),
                                          ExcludedHistory(m), ~IsDirect(m))
       IN IF closest_node = NoId THEN c1
          ELSE RudpSend(StopAt(c1, "before_send"), AdjustRouteHistory(m),
                        NodeInfo(closest_node).connection_id, "RecursiveSendOn", attempt)

\* every failure is taken for a send failure
MessageSentFunctorRetryAll(c, i, message_sent) ==
  LET s == c.sent[i]
      c0 == [c EXCEPT !.done = Append(@, [send |-> i, result |-> message_sent,
                                          rt |-> c.rt, nrt |-> c.nrt,
                                          stopped |-> c.stopped,
                                          sent |-> Len(c.sent), ops |-> Len(c.ops)])]
  IN IF message_sent = "kSuccess" THEN c0
     ELSE RecursiveSendOn(c0, s.msg, s.conn, s.attempt + 1)

\* the message_sent_functor RecursiveSendOn hands to the transport, run with the
\* result of the i-th transport send
MessageSentFunctor(c, i, message_sent) ==
  LET s == c.sent[i]
      c0 == [c EXCEPT !.done = Append(@, [send |-> i, result |-> message_sent,
                                          rt |-> c.rt, nrt |-> c.nrt,
                                          stopped |-> c.stopped,
                                          sent |-> Len(c.sent), ops |-> Len(c.ops)])]
  IN IF message_sent = "kSuccess" THEN c0
     ELSE IF message_sent = "kSendFailure"
       THEN RecursiveSendOn(c0, s.msg, s.conn, s.attempt + 1)
     ELSE IF c0.stopped THEN c0
     ELSE RecursiveSendOn(OnConnectionLost(StopAt(RudpRemove(c0, s.conn), "after_remove"),
                                           s.conn),
                          s.msg, NoId, 0)

RECURSIVE SendToEach(_, _, _)
SendToEach(c, m, nodes) ==
  IF nodes = {} THEN c
  ELSE LET i == CHOOSE e \in nodes : \A f \in nodes : e.connection_id <= f.connection_id
       IN SendToEach(SendTo(c, m, i.node_id), m, nodes \ {i})

\* SendToClosestNode without the non-routing-table fan-out
SendToClosestNodeSkipNrt(c, m) ==
  LET c1 == [c EXCEPT !.calls = Append(@, [op |-> "SendToClosestNode", peer |-> NoId,
                                           conn |-> NoId, msg |-> m])]
  IN IF m.destination_id # NoId
       THEN IF Cardinality(c.rt) > 0 THEN RecursiveSendOn(c1, m, NoId, 0) ELSE c1
     ELSE IF m.relay_id # NoId /\ IsResponse(m)
       THEN SendTo(c1, [m EXCEPT !.destination_id = m.relay_id], m.relay_id)
     ELSE c1

\* SendToClosestNode relaying the response as it came, destination_id left absent
SendToClosestNodeRelayAsIs(c, m) ==
  LET c1 == [c EXCEPT !.calls = Append(@, [op |-> "SendToClosestNode", peer |-> NoId,
                                           conn |-> NoId, msg |-> m])]
      non_routing_nodes == NrtGetNodesInfo(c.nrt, TargetOf(m.destination_id))
  IN IF m.destination_id # NoId
       THEN IF non_routing_nodes # {} /\ m.direct
              THEN SendToEach(c1, m, non_routing_nodes)
            ELSE IF Cardinality(c.rt) > 0 THEN RecursiveSendOn(c1, m, NoId, 0)
            ELSE c1
     ELSE IF m.relay_id # NoId /\ IsResponse(m)
       THEN SendTo(c1, m, m.relay_id)
     ELSE c1

\* NetworkUtils::SendToClosestNode
SendToClosestNode(c, m) ==
  LET c1 == [c EXCEPT !.calls = Append(@, [op |-> "SendToClosestNode", peer |-> NoId,
                                           conn |-> NoId, msg |-> m])]
      non_routing_nodes == NrtGetNodesInfo(c.nrt, TargetOf(m.destination_id))
  IN IF m.destination_id = EmptyStr /\ c.env.empty_id = "throw" THEN Fault(c1, "throw")
     ELSE IF m.destination_id # NoId
       THEN IF non_routing_nodes # {} /\ m.direct
              THEN SendToEach(c1, m, non_routing_nodes)
            ELSE IF Cardinality(c.rt) > 0 THEN RecursiveSendOn(c1, m, NoId, 0)
            ELSE c1
     ELSE IF m.relay_id # NoId /\ IsResponse(m)
       THEN SendTo(c1, [m EXCEPT !.destination_id = m.relay_id], m.relay_id)
     ELSE c1

(***************************************************************************)
(* GroupChangeHandler                                                      *)
(***************************************************************************)
RECURSIVE SendRpcToEach(_, _, _)
SendRpcToEach(c, nodes, subscribe) ==
  IF nodes = {} THEN c
  ELSE LET n == CHOOSE x \in nodes : \A y \in nodes : x <= y
       IN SendRpcToEach(SendToDirect(c, SubscribeRpc(n, subscribe), n,
                                     NodeInfo(n).connection_id),
                        nodes \ {n}, subscribe)

\* std::vector::erase(std::remove_if(...)) on the subscribers, for one node id
EraseSubscriber(c, node_id) ==
  IF c.subs = << >> THEN c
  ELSE IF node_id \in Range(c.subs)
    THEN [c EXCEPT !.subs = SelectSeq(@, LAMBDA n : n # node_id)]
  ELSE Fault(c, "ub")

\* GroupChangeHandler::SendSubscribeRpc
SendSubscribeRpc(c, subscribe, node_id) ==
  IF subscribe
    THEN SendRpcToEach(c, GetNodesNeedingGroupUpdates(c.rt, c.gm), TRUE)
  ELSE LET c1 == EraseSubscriber(c, node_id)
       IN IF c1.fault # "none" THEN c1 ELSE SendRpcToEach(c1, {node_id}, FALSE)

\* GroupChangeHandler::UpdateGroupChange
UpdateGroupChange(c, node_id, close_nodes) ==
  LET c1 == IF RtIsConnected(c.rt, node_id)
              THEN [c EXCEPT !.gm = GroupUpdateFromConnectedPeer(@, node_id, close_nodes)]
            ELSE c
  IN SendSubscribeRpc(c1, TRUE, NoId)

\* ClosestNodesUpdate without the test of the destination
ClosestNodesUpdateAnyDestination(c) ==
  LET m == c.msg
      closest_nodes == { n \in m.upd_nodes : n \in NodeIds }
  IN IF m.data = "garbage" THEN c
     ELSE IF m.upd_node \notin NodeIds THEN c
     ELSE IF closest_nodes = {} /\ c.env.asserts THEN Fault(c, "assert")
     ELSE LET c1 == UpdateGroupChange(c, m.upd_node, closest_nodes)
          IN [c1 EXCEPT !.msg = ClearMessage(m)]

\* GroupChangeHandler::ClosestNodesUpdate
ClosestNodesUpdate(c) ==
  LET m == c.msg
      closest_nodes == { n \in m.upd_nodes : n \in NodeIds }
  IN IF m.destination_id # Self THEN [c EXCEPT !.msg = ClearMessage(m)]
     ELSE IF m.data = "garbage" THEN c
     ELSE IF m.upd_node \notin NodeIds THEN c
     ELSE IF closest_nodes = {} /\ c.env.asserts THEN Fault(c, "assert")
     ELSE LET c1 == UpdateGroupChange(c, m.upd_node, closest_nodes)
          IN [c1 EXCEPT !.msg = ClearMessage(m)]

\* GroupChangeHandler::Unsubscribe
Unsubscribe(c, node_id) == EraseSubscriber(c, node_id)

\* the locked part of Subscribe without the find_if over the subscribers
SubscribeLockedNoFind(c, node_id, connected_closest_nodes) ==
  IF node_id \in c.rt
    THEN SendToDirect([c EXCEPT !.subs = Append(@, node_id)],
                      ClosestNodesUpdateRequest(node_id, Range(connected_closest_nodes)),
                      node_id, NodeInfo(node_id).connection_id)
  ELSE c

\* the locked part of Subscribe without the look-up in the routing table
SubscribeLockedUnconnected(c, node_id, connected_closest_nodes) ==
  SendToDirect([c EXCEPT !.subs = IF node_id \in Range(@) THEN @ ELSE Append(@, node_id)],
               ClosestNodesUpdateRequest(node_id, Range(connected_closest_nodes)),
               node_id, NodeInfo(node_id).connection_id)

\* GroupChangeHandler::Subscribe from the lock_guard on: the subscriber is
\* recorded under the mutex, the update is sent after it is released
SubscribeLocked(c, node_id, connected_closest_nodes) ==
  IF node_id \in c.rt
    THEN SendToDirect([c EXCEPT !.subs = IF node_id \in Range(@) THEN @
                                            ELSE Append(@, node_id)],
                      ClosestNodesUpdateRequest(node_id, Range(connected_closest_nodes)),
                      node_id, NodeInfo(node_id).connection_id)
  ELSE c

\* Subscribe without the test of the number of connected close nodes
SubscribeAnySize(c, node_id) ==
  SubscribeLocked(c, node_id, GetClosestNodeInfo(c.rt, ClosestNodesSize))

\* GroupChangeHandler::Subscribe
Subscribe(c, node_id) ==
  LET connected_closest_nodes == GetClosestNodeInfo(c.rt, ClosestNodesSize)
  IN IF Len(connected_closest_nodes) < ClosestNodesSize THEN c
     ELSE SubscribeLocked(c, node_id, connected_closest_nodes)

RECURSIVE SendUpdateToEach(_, _, _)
SendUpdateToEach(c, update_subscribers, closest_nodes) ==
  IF update_subscribers = << >> THEN c
  ELSE LET n == Head(update_subscribers)
       IN SendUpdateToEach(SendToDirect(c, ClosestNodesUpdateRequest(n, Range(closest_nodes)),
                                        n, NodeInfo(n).connection_id),
                           Tail(update_subscribers), closest_nodes)

\* SendClosestNodesUpdateRpcs without the test of the size of closest_nodes
SendClosestNodesUpdateRpcsAnySize(c, closest_nodes) ==
  SendUpdateToEach(c, c.subs, closest_nodes)

\* GroupChangeHandler::SendClosestNodesUpdateRpcs
SendClosestNodesUpdateRpcs(c, closest_nodes) ==
  IF Len(closest_nodes) < ClosestNodesSize THEN c
  ELSE IF Len(closest_nodes) > ClosestNodesSize /\ c.env.asserts THEN Fault(c, "assert")
  ELSE SendUpdateToEach(c, c.subs, closest_nodes)

\* GroupChangeHandler::ClosestNodesUpdateSubscribe
ClosestNodesUpdateSubscribe(c) ==
  LET m == c.msg
  IN IF m.destination_id # Self THEN [c EXCEPT !.msg = ClearMessage(m)]
     ELSE IF m.data = "garbage" THEN c
     ELSE IF m.upd_node \notin NodeIds THEN c
     ELSE LET c1 == IF m.subscribe THEN Subscribe(c, m.upd_node)
                    ELSE Unsubscribe(c, m.upd_node)
          IN IF c1.fault # "none" THEN c1 ELSE [c1 EXCEPT !.msg = ClearMessage(m)]

(***************************************************************************)
(* MessageHandler                                                          *)
(***************************************************************************)
\* Parameters::caching
Caching == TRUE

\* MessageHandler::IsCacheableRequest
IsCacheableRequest(c, m) ==
  IsNodeLevelMessage(m) /\ Caching /\ ~c.client_mode /\ IsCacheable(m) /\ IsRequest(m)

\* MessageHandler::IsCacheableResponse
IsCacheableResponse(c, m) ==
  IsNodeLevelMessage(m) /\ Caching /\ ~c.client_mode /\ IsCacheable(m) /\ ~IsRequest(m)

\* MessageHandler::IsGroupMessageRequestToSelfId
IsGroupMessageRequestToSelfId(m) ==
  m.source_id = Self /\ m.destination_id = Self /\ m.request /\ ~m.direct

\* MessageHandler::IsRelayResponseForThisNode
IsRelayResponseForThisNode(m) ==
  IsRoutingMessage(m) /\ m.relay_id # NoId /\ m.relay_id = Self

\* a reply that keeps the hops the request had left
ReplyMessageKeepHops(m) ==
  [BaseMessage EXCEPT !.request = FALSE, !.hops_to_live = m.hops_to_live,
                      !.destination_id = IF m.source_id = NoId THEN EmptyStr
                                         ELSE m.source_id,
                      !.type = m.type, !.direct = TRUE,
                      !.client_node = m.client_node,
                      !.routing_message = m.routing_message, !.data = "reply",
                      !.source_id = Self, !.id = m.id, !.relay_id = m.relay_id]

\* the message_out the reply functor of HandleNodeLevelMessageForThisNode builds
ReplyMessage(m) ==
  [BaseMessage EXCEPT !.request = FALSE, !.hops_to_live = HopsToLive,
                      !.destination_id = IF m.source_id = NoId THEN EmptyStr
                                         ELSE m.source_id,
                      !.type = m.type, !.direct = TRUE,
                      !.client_node = m.client_node,
                      !.routing_message = m.routing_message, !.data = "reply",
                      !.source_id = Self, !.id = m.id, !.relay_id = m.relay_id]

\* Service::Ping / ResponseHandler::Ping: the service answers a request or clears it
ServicePing(c) ==
  LET m == c.msg
      c1 == Log(c, "service", m)
  IN IF ~m.request THEN c1
     ELSE IF c.env.svc = "clear" THEN [c1 EXCEPT !.msg = ClearMessage(m)]
     ELSE [c1 EXCEPT !.msg = [m EXCEPT !.request = FALSE,
                                       !.destination_id = m.source_id,
                                       !.source_id = Self,
                                       !.route_history = << >>,
                                       !.hops_to_live = HopsToLive,
                                       !.data = "reply"]]

\* the routing dispatch that sends on whatever is still initialized
HandleRoutingMessageAnyDirection(c) ==
  LET m == c.msg
      c0 == Enter(c, "HandleRoutingMessage")
      c1 == IF m.type = "Ping" THEN ServicePing(c0)
            ELSE IF ~m.request /\ c.env.asserts THEN Fault(c0, "assert")
            ELSE IF m.type = "ClosestNodesUpdate"
              THEN ClosestNodesUpdate(Log(c0, "service", m))
            ELSE ClosestNodesUpdateSubscribe(Log(c0, "service", m))
  IN IF m.type \notin {"Ping", "ClosestNodesUpdate", "ClosestNodesUpdateSubscribe"} THEN c0
     ELSE IF c1.fault # "none" THEN c1
     ELSE IF ~c1.msg.initialized THEN c1
     ELSE IF Cardinality(c1.rt) = 0
       THEN SendToDirect(c1, c1.msg, BootstrapConn, BootstrapConn)
     ELSE SendToClosestNode(c1, c1.msg)

\* the routing dispatch that answers through the bootstrap connection always
HandleRoutingMessageViaBootstrap(c) ==
  LET m == c.msg
      request == m.request
      c0 == Enter(c, "HandleRoutingMessage")
      c1 == IF m.type = "Ping" THEN ServicePing(c0)
            ELSE IF ~m.request /\ c.env.asserts THEN Fault(c0, "assert")
            ELSE IF m.type = "ClosestNodesUpdate"
              THEN ClosestNodesUpdate(Log(c0, "service", m))
            ELSE ClosestNodesUpdateSubscribe(Log(c0, "service", m))
  IN IF m.type \notin {"Ping", "ClosestNodesUpdate", "ClosestNodesUpdateSubscribe"} THEN c0
     ELSE IF c1.fault # "none" THEN c1
     ELSE IF ~request \/ ~c1.msg.initialized THEN c1
     ELSE SendToDirect(c1, c1.msg, BootstrapConn, BootstrapConn)

\* MessageHandler::HandleRoutingMessage
HandleRoutingMessage(c) ==
  LET m == c.msg
      request == m.request
      c0 == Enter(c, "HandleRoutingMessage")
      c1 == IF m.type = "Ping" THEN ServicePing(c0)
            ELSE IF ~m.request /\ c.env.asserts THEN Fault(c0, "assert")
            ELSE IF m.type = "ClosestNodesUpdate"
              THEN ClosestNodesUpdate(Log(c0, "service", m))
            ELSE ClosestNodesUpdateSubscribe(Log(c0, "service", m))
  IN IF m.type \notin {"Ping", "ClosestNodesUpdate", "ClosestNodesUpdateSubscribe"} THEN c0
     ELSE IF c1.fault # "none" THEN c1
     ELSE IF ~request \/ ~c1.msg.initialized THEN c1
     ELSE IF Cardinality(c1.rt) = 0
       THEN SendToDirect(c1, c1.msg, BootstrapConn, BootstrapConn)
     ELSE SendToClosestNode(c1, c1.msg)

RECURSIVE HandleMessage(_)

\* MessageHandler::HandleNodeLevelMessageForThisNode, with its reply functor
HandleNodeLevelMessageForThisNode(c) ==
  LET m == c.msg
      c0 == Enter(c, "HandleNodeLevelMessageForThisNode")
      message_out == ReplyMessage(m)
      c1 == Log(c0, "app", m)
      c2 == Log(c1, "reply", message_out)
  IN IF ~IsRequest(m) THEN Log(c0, "timer", m)
     ELSE IF c.env.reply # "data" THEN c1
     ELSE IF c.client_mode /\ Self = message_out.destination_id
       THEN SendToClosestNode(c2, message_out)
     ELSE IF Self # message_out.destination_id
       THEN SendToClosestNode(c2, message_out)
     ELSE [HandleMessage([c2 EXCEPT !.msg = message_out]) EXCEPT !.msg = m]

\* MessageHandler::RelayDirectMessageIfNeeded: TRUE when the response is relayed
RelaysDirectMessage(m) ==
  m.relay_id # NoId /\ m.destination_id # m.relay_id /\ IsResponse(m)

\* the handler relaying the response with its destination_id left as it came
HandleMessageForThisNodeKeepDestination(c) ==
  LET c0 == Enter(c, "HandleMessageForThisNode")
  IN IF RelaysDirectMessage(c.msg) THEN SendToClosestNode(c0, c0.msg)
     ELSE IF IsRoutingMessage(c.msg) THEN HandleRoutingMessage(c0)
     ELSE HandleNodeLevelMessageForThisNode(c0)

\* MessageHandler::HandleMessageForThisNode
HandleMessageForThisNode(c) ==
  LET c0 == Enter(c, "HandleMessageForThisNode")
      cleared == [c0 EXCEPT !.msg.destination_id = NoId]
  IN IF RelaysDirectMessage(c.msg) THEN SendToClosestNode(cleared, cleared.msg)
     ELSE IF IsRoutingMessage(c.msg) THEN HandleRoutingMessage(c0)
     ELSE HandleNodeLevelMessageForThisNode(c0)

\* the direct handler without the drop of a visited message
HandleDirectMessageAlwaysForward(c) ==
  LET c0 == Enter(c, "HandleDirectMessageAsClosestNode")
      visited == [c0 EXCEPT !.msg.has_visited = TRUE, !.msg.visited = TRUE]
  IN IF IsThisNodeClosestTo(c.rt, TargetOf(c.msg.destination_id), FALSE)
          /\ ~RtIsConnected(c.rt, TargetOf(c.msg.destination_id))
          /\ ~NrtIsConnected(c.nrt, TargetOf(c.msg.destination_id))
       THEN SendToClosestNode(visited, visited.msg)
     ELSE SendToClosestNode(c0, c.msg)

\* MessageHandler::HandleDirectMessageAsClosestNode
HandleDirectMessageAsClosestNode(c) ==
  LET m == c.msg
      destination_node_id == TargetOf(m.destination_id)
      c0 == Enter(c, "HandleDirectMessageAsClosestNode")
      visited == [c0 EXCEPT !.msg.has_visited = TRUE, !.msg.visited = TRUE]
  IN IF IsThisNodeClosestTo(c.rt, destination_node_id, FALSE)
       THEN IF RtIsConnected(c.rt, destination_node_id)
               \/ NrtIsConnected(c.nrt, destination_node_id)
              THEN SendToClosestNode(c0, m)
            ELSE IF ~m.has_visited \/ ~m.visited
              THEN SendToClosestNode(visited, visited.msg)
            ELSE c0
     ELSE SendToClosestNode(c0, m)

\* MessageHandler::HandleGroupMessageAsClosestNode and
\* MessageHandler::HandleGroupRelayRequestMessageAsClosestNode, first statement:
\* have_node_with_group_id
GroupReadHaveNode(c, relay) ==
  [Enter(c, IF relay THEN "HandleGroupRelayRequestMessageAsClosestNode"
            ELSE "HandleGroupMessageAsClosestNode")
     EXCEPT !.have = RtIsConnected(c.rt, TargetOf(c.msg.destination_id)),
            !.relay = relay, !.pc = "have_read"]

\* the decision without the check of the replication range
GroupDecideAnyReplication(c) ==
  LET m == c.msg
      dest == TargetOf(m.destination_id)
      done == [c EXCEPT !.pc = "done"]
      stamped == [done EXCEPT !.msg.source_id = Self]
      visited == [done EXCEPT !.msg.has_visited = TRUE, !.msg.visited = TRUE]
      leader == GroupLeader(c.rt, c.gm, dest)
  IN IF ~IsThisNodeClosestTo(c.rt, dest, ~IsDirect(m)) /\ ~c.have
       THEN IF c.relay THEN SendToClosestNode(stamped, stamped.msg)
            ELSE SendToClosestNode(done, m)
     ELSE IF ~c.relay /\ m.has_visited /\ ~m.visited
             /\ Cardinality(c.rt) > ClosestNodesSize
             /\ ~IsThisNodeInRange(c.rt, dest, ClosestNodesSize)
       THEN SendToClosestNode(visited, visited.msg)
     ELSE IF ~IsThisNodeGroupLeader(c.rt, c.gm, dest)
       THEN SendToDirect(done, m, leader, NodeInfo(leader).connection_id)
     ELSE [c EXCEPT !.pc = "replicate", !.msg.direct = TRUE,
                    !.replication = IF m.replication < 1 THEN 0
                                    ELSE (m.replication - 1) + (IF c.have THEN 1 ELSE 0)]

\* the decision that routes to the leader instead of sending to it directly
GroupDecideLeaderRouted(c) ==
  LET m == c.msg
      dest == TargetOf(m.destination_id)
      done == [c EXCEPT !.pc = "done"]
      stamped == [done EXCEPT !.msg.source_id = Self]
      visited == [done EXCEPT !.msg.has_visited = TRUE, !.msg.visited = TRUE]
  IN IF ~IsThisNodeClosestTo(c.rt, dest, ~IsDirect(m)) /\ ~c.have
       THEN IF c.relay THEN SendToClosestNode(stamped, stamped.msg)
            ELSE SendToClosestNode(done, m)
     ELSE IF ~c.relay /\ m.has_visited /\ ~m.visited
             /\ Cardinality(c.rt) > ClosestNodesSize
             /\ ~IsThisNodeInRange(c.rt, dest, ClosestNodesSize)
       THEN SendToClosestNode(visited, visited.msg)
     ELSE IF ~IsThisNodeGroupLeader(c.rt, c.gm, dest)
       THEN SendToClosestNode(done, m)
     ELSE IF m.replication < 1 \/ m.replication > NodeGroupSize
       THEN done
     ELSE [c EXCEPT !.pc = "replicate", !.msg.direct = TRUE,
                    !.replication = (m.replication - 1) + (IF c.have THEN 1 ELSE 0)]

\* ... from the closest check to the replication arithmetic
GroupDecide(c) ==
  LET m == c.msg
      dest == TargetOf(m.destination_id)
      done == [c EXCEPT !.pc = "done"]
      stamped == [done EXCEPT !.msg.source_id = Self]
      visited == [done EXCEPT !.msg.has_visited = TRUE, !.msg.visited = TRUE]
      leader == GroupLeader(c.rt, c.gm, dest)
  IN IF ~IsThisNodeClosestTo(c.rt, dest, ~IsDirect(m)) /\ ~c.have
       THEN IF c.relay THEN SendToClosestNode(stamped, stamped.msg)
            ELSE SendToClosestNode(done, m)
     ELSE IF ~c.relay /\ m.has_visited /\ ~m.visited
             /\ Cardinality(c.rt) > ClosestNodesSize
             /\ ~IsThisNodeInRange(c.rt, dest, ClosestNodesSize)
       THEN SendToClosestNode(visited, visited.msg)
     ELSE IF ~IsThisNodeGroupLeader(c.rt, c.gm, dest)
       THEN SendToDirect(done, m, leader, NodeInfo(leader).connection_id)
     ELSE IF m.replication < 1 \/ m.replication > NodeGroupSize
       THEN done
     ELSE [c EXCEPT !.pc = "replicate", !.msg.direct = TRUE,
                    !.replication = (m.replication - 1) + (IF c.have THEN 1 ELSE 0)]

RECURSIVE ReplicateTo(_, _)
\* the replication loop: one SendToDirect for every id of close still connected
ReplicateTo(c, close) ==
  IF close = << >> THEN c
  ELSE LET i == Head(close)
           c1 == [c EXCEPT !.msg.destination_id = i]
       IN ReplicateTo(IF i \in c.rt
                        THEN SendToDirect(c1, c1.msg, i, NodeInfo(i).connection_id)
                      ELSE c1,
                      Tail(close))

\* the fan-out that always asks for one node more and drops the head
GroupReplicateOneMore(c) ==
  LET group_id == TargetOf(c.msg.destination_id)
      all == GetClosestNodes(c.rt, group_id, c.replication + (IF c.have THEN 0 ELSE 1))
      close == Tail0(all)
      c0 == Enter([c EXCEPT !.pc = "done"], "Replicate")
      c1 == IF c.relay THEN [c0 EXCEPT !.msg.source_id = Self] ELSE c0
      c2 == ReplicateTo(c1, close)
      c3 == [c2 EXCEPT !.msg.destination_id = Self,
                       !.msg.source_id = IF c.relay THEN NoId ELSE @]
  IN IF c.have /\ all = << >> THEN Fault(c0, "ub")
     ELSE IF IsRoutingMessage(c3.msg) THEN HandleRoutingMessage(c3)
     ELSE HandleNodeLevelMessageForThisNode(c3)

\* ... from GetClosestNodes to the local dispatch
GroupReplicate(c) ==
  LET group_id == TargetOf(c.msg.destination_id)
      all == GetClosestNodes(c.rt, group_id, c.replication)
      close == IF c.have THEN Tail0(all) ELSE all
      c0 == Enter([c EXCEPT !.pc = "done"], "Replicate")
      c1 == IF c.relay THEN [c0 EXCEPT !.msg.source_id = Self] ELSE c0
      c2 == ReplicateTo(c1, close)
      c3 == [c2 EXCEPT !.msg.destination_id = Self,
                       !.msg.source_id = IF c.relay THEN NoId ELSE @]
  IN IF c.have /\ all = << >> THEN Fault(c0, "ub")
     ELSE IF IsRoutingMessage(c3.msg) THEN HandleRoutingMessage(c3)
     ELSE HandleNodeLevelMessageForThisNode(c3)

\* the group handler: run to the end, or (two threads) only its first statement
GroupHandler(c, relay) ==
  LET c1 == GroupReadHaveNode(c, relay)
      c2 == GroupDecide(c1)
  IN IF ~c.env.atomic THEN c1
     ELSE IF c2.pc = "replicate" THEN GroupReplicate(c2)
     ELSE c2

\* MessageHandler::HandleGroupMessageAsClosestNode
HandleGroupMessageAsClosestNode(c) == GroupHandler(c, FALSE)

\* MessageHandler::HandleGroupRelayRequestMessageAsClosestNode
HandleGroupRelayRequestMessageAsClosestNode(c) == GroupHandler(c, TRUE)

\* MessageHandler::HandleMessageAsClosestNode
HandleMessageAsClosestNode(c) ==
  LET c0 == Enter(c, "HandleMessageAsClosestNode")
  IN IF IsDirect(c.msg) THEN HandleDirectMessageAsClosestNode(c0)
     ELSE HandleGroupMessageAsClosestNode(c0)

\* MessageHandler::HandleMessageAsFarNode
HandleMessageAsFarNode(c) ==
  LET m == c.msg
      c0 == Enter(c, "HandleMessageAsFarNode")
      c1 == IF m.has_visited
               /\ IsThisNodeClosestTo(c.rt, TargetOf(m.destination_id), ~m.direct)
               /\ ~m.direct /\ ~m.visited
              THEN [c0 EXCEPT !.msg.visited = TRUE]
            ELSE c0
  IN SendToClosestNode(c1, c1.msg)

\* the handler for connected clients without the test of the request's origin
HandleMessageForNonRoutingNodesAnyOrigin(c) ==
  SendToClosestNode(Enter(c, "HandleMessageForNonRoutingNodes"), c.msg)

\* MessageHandler::HandleMessageForNonRoutingNodes
HandleMessageForNonRoutingNodes(c) ==
  LET m == c.msg
      c0 == Enter(c, "HandleMessageForNonRoutingNodes")
  IN IF IsRequest(m) /\ (~m.client_node \/ m.source_id # m.destination_id) THEN c0
     ELSE SendToClosestNode(c0, m)

\* MessageHandler::HandleGroupMessageToSelfId
HandleGroupMessageToSelfId(c) ==
  SendToClosestNode(Enter(c, "HandleGroupMessageToSelfId"), c.msg)

\* MessageHandler::HandleDirectRelayRequestMessageAsClosestNode
HandleDirectRelayRequestMessageAsClosestNode(c) ==
  LET m == c.msg
      destination_node_id == TargetOf(m.destination_id)
      c0 == Enter(c, "HandleDirectRelayRequestMessageAsClosestNode")
      stamped == [c0 EXCEPT !.msg.source_id = Self]
  IN IF IsThisNodeClosestTo(c.rt, destination_node_id, FALSE)
       THEN IF RtIsConnected(c.rt, destination_node_id)
               \/ NrtIsConnected(c.nrt, destination_node_id)
              THEN SendToClosestNode(stamped, stamped.msg)
            ELSE c0
     ELSE SendToClosestNode(c0, m)

\* MessageHandler::HandleRelayRequest
HandleRelayRequest(c) ==
  LET m == c.msg
      c0 == Enter(c, "HandleRelayRequest")
      stamped == [c0 EXCEPT !.msg.source_id = Self]
  IN IF m.destination_id = Self /\ IsRequest(m)
       THEN IF ~m.direct THEN HandleGroupMessageToSelfId(stamped)
            ELSE HandleMessageForThisNode(c0)
     ELSE IF m.request /\ IsThisNodeClosestTo(c.rt, TargetOf(m.destination_id), FALSE)
       THEN IF m.direct THEN HandleDirectRelayRequestMessageAsClosestNode(c0)
            ELSE HandleGroupRelayRequestMessageAsClosestNode(c0)
     ELSE SendToClosestNode(stamped, stamped.msg)

\* the client handler sending on what is not for this node
HandleClientMessageForwards(c) ==
  LET m == c.msg
      c0 == Enter(c, "HandleClientMessage")
  IN IF IsRoutingMessage(m) THEN HandleRoutingMessage(c0)
     ELSE IF m.destination_id = Self THEN HandleNodeLevelMessageForThisNode(c0)
     ELSE SendToClosestNode(c0, m)

\* MessageHandler::HandleClientMessage
HandleClientMessage(c) ==
  LET m == c.msg
      c0 == Enter(c, "HandleClientMessage")
  IN IF m.source_id = NoId THEN c0
     ELSE IF IsRoutingMessage(m) THEN HandleRoutingMessage(c0)
     ELSE IF m.destination_id = Self THEN HandleNodeLevelMessageForThisNode(c0)
     ELSE c0

\* MessageHandler::HandleCacheLookup (CacheManager::HandleGetFromCache)
HandleCacheLookup(c) ==
  LET c0 == Log(Enter(c, "HandleCacheLookup"), "cache_lookup", c.msg)
  IN IF c.env.hit THEN SendToClosestNode(c0, ReplyMessage(c.msg))
     ELSE SendToClosestNode(c0, c.msg)

\* MessageHandler::StoreCacheCopy (CacheManager::AddToCache)
StoreCacheCopy(c) == Log(Enter(c, "StoreCacheCopy"), "cache_store", c.msg)

\* MessageHandler::HandleMessage, after validation and the decrement
Classify(c) ==
  LET m == c.msg
      dest == TargetOf(m.destination_id)
  IN IF IsGroupMessageRequestToSelfId(m) THEN HandleGroupMessageToSelfId(c)
     ELSE IF c.client_mode THEN HandleClientMessage(c)
     ELSE IF m.source_id = NoId THEN HandleRelayRequest(c)
     ELSE IF m.source_id = ZeroId THEN Enter(c, "StrayMessageDropped")
     ELSE IF m.destination_id = Self THEN HandleMessageForThisNode(c)
     ELSE IF IsRelayResponseForThisNode(m) THEN HandleRoutingMessage(c)
     ELSE IF NrtIsConnected(c.nrt, dest) /\ IsDirect(m)
       THEN HandleMessageForNonRoutingNodes(c)
     ELSE IF IsThisNodeInRange(c.rt, dest, NodeGroupSize)
             \/ (IsThisNodeClosestTo(c.rt, dest, ~m.direct) /\ m.visited)
       THEN HandleMessageAsClosestNode(c)
     ELSE HandleMessageAsFarNode(c)

\* the received message passed on with its hops_to_live as received
KeepHops(m) == m

\* message.set_hops_to_live(message.hops_to_live() - 1)
DecrementHops(m) == [m EXCEPT !.hops_to_live = m.hops_to_live - 1]

\* MessageHandler::HandleMessage
HandleMessage(c) ==
  LET m == c.msg
      c0 == Enter(c, "HandleMessage")
      c1 == [c0 EXCEPT !.msg = DecrementHops(m)]
  IN IF ~ValidateMessage(m)
       THEN IF m.hops_to_live <= 0 /\ c.env.asserts
              THEN Fault(Enter(c0, "ValidateFailed"), "assert")
            ELSE Enter(c0, "ValidateFailed")
     ELSE IF ~c.client_mode /\ IsCacheableRequest(c, c1.msg) THEN HandleCacheLookup(c1)
     ELSE IF ~c.client_mode /\ IsCacheableResponse(c, c1.msg)
       THEN Classify(StoreCacheCopy(c1))
     ELSE Classify(c1)

(***************************************************************************)
(* The node as a state machine.                                            *)
(***************************************************************************)
VARIABLES
  rt,            \* RoutingTable: ids of the connected vault peers
  nrt,           \* NonRoutingTable: connections of the served client
  gm,            \* group matrix: row key -> the close nodes that peer reported
  subs,          \* GroupChangeHandler::update_subscribers_
  stopped,       \* NetworkUtils::stopped_
  client_mode,   \* routing_table_.client_mode()
  pc,            \* "idle", "have_read", "replicate", "subscribing", "done" or "crashed"
  frame,         \* the handler run in progress or just finished
  net            \* the transport between a sending peer and this node

vars == << rt, nrt, gm, subs, stopped, client_mode, pc, frame, net >>

\* what the collaborators and the build decide during one run:
\*   asserts  : the build keeps assert() (no NDEBUG)
\*   reply    : what the application does with the reply functor
\*   svc      : whether the routing service answers the request or clears it
\*   hit      : whether the cache holds the requested content
\*   empty_id : what NodeId("") does
\*   atomic   : no other callback runs during the handler
\*   stop     : where NetworkUtils::Stop cuts into a send: "none", "after_remove"
\*              or "before_send"
NoEnv ==
  [asserts |-> FALSE, reply |-> "none", svc |-> "clear", hit |-> FALSE,
   empty_id |-> "zero", atomic |-> TRUE, stop |-> "none"]

IdleFrame ==
  [msg_in |-> ClearMessage(BaseMessage), msg |-> ClearMessage(BaseMessage),
   calls |-> << >>, sent |-> << >>, log |-> << >>, path |-> << >>, fault |-> "none",
   env |-> NoEnv, have |-> FALSE, relay |-> FALSE, replication |-> 0,
   hops |-> 0, first_htl |-> 0, gm_in |-> << >>, subs_in |-> << >>,
   nrt_in |-> {}, ops |-> << >>, done |-> << >>]

\* the frame of a handler run over the node's present tables
Ctx(f) ==
  [rt |-> rt, nrt |-> nrt, gm |-> gm, subs |-> subs, stopped |-> stopped,
   client_mode |-> client_mode, msg_in |-> f.msg_in, msg |-> f.msg, calls |-> f.calls,
   sent |-> f.sent, log |-> f.log, path |-> f.path, fault |-> f.fault, env |-> f.env,
   have |-> f.have, relay |-> f.relay, replication |-> f.replication,
   hops |-> f.hops, first_htl |-> f.first_htl, gm_in |-> f.gm_in,
   subs_in |-> f.subs_in, nrt_in |-> f.nrt_in, ops |-> f.ops, done |-> f.done, pc |-> pc]

\* what a run leaves behind
FrameOf(c) ==
  [msg_in |-> c.msg_in, msg |-> c.msg, calls |-> c.calls, sent |-> c.sent,
   log |-> c.log, path |-> c.path, fault |-> c.fault, env |-> c.env,
   have |-> c.have, relay |-> c.relay, replication |-> c.replication,
   hops |-> c.hops, first_htl |-> c.first_htl, gm_in |-> c.gm_in,
   subs_in |-> c.subs_in, nrt_in |-> c.nrt_in, ops |-> c.ops, done |-> c.done]

\* the tables stay inside the bounds of the model
WithinBounds(c) ==
  /\ Len(c.subs) <= MaxSubs
  /\ FilledRows(c.gm) <= MaxFilledRows

\* a run ends or is suspended: the tables and the frame it leaves
Finish(c) ==
  /\ WithinBounds(c)
  /\ gm' = c.gm
  /\ subs' = c.subs
  /\ frame' = FrameOf(c)
  /\ pc' = IF c.fault # "none" THEN "crashed"
           ELSE IF c.pc \in {"have_read", "replicate"} THEN c.pc
           ELSE "done"
  /\ stopped' = c.stopped
  /\ UNCHANGED << client_mode, net >>

\* a sent message is the message received, passed on (not an answer this node built)
IsCopyOf(m, msg_in) ==
  m.id = msg_in.id /\ m.request = msg_in.request /\ m.data = msg_in.data

\* a fresh frame for inbound message m
NewFrame(m, env) ==
  [IdleFrame EXCEPT !.msg_in = m, !.msg = m, !.env = env, !.first_htl = m.hops_to_live,
                    !.gm_in = gm, !.subs_in = subs, !.nrt_in = nrt]

(***************************************************************************)
(* The messages and collaborator choices the transport may deliver.        *)
(***************************************************************************)
\* a message with the fields the classification reads
Mk(routing, source, destination, relay, request, direct) ==
  [BaseMessage EXCEPT !.type = IF routing THEN "Ping" ELSE "App",
                      !.routing_message = routing, !.source_id = source,
                      !.destination_id = destination, !.relay_id = relay,
                      !.request = request, !.direct = direct,
                      !.data = IF request THEN "req" ELSE "resp"]

\* has_visited / visited
WithVisited(m, has, v) == [m EXCEPT !.has_visited = has, !.visited = v]

\* unset, the zero id, a peer, this node
Sources == {NoId, ZeroId, 1, Self}
\* the zero id, a far peer, this node, the nearest peer, an id no node has, the client
Destinations == {ZeroId, 1, Self, MaxId, MaxId + 1, ClientId}
Relays == {NoId, Self, 2}

\* every combination of the fields the guards of HandleMessage read
GuardMsgs ==
  { Mk(rm, s, d, r, q, dir) :
      rm \in BOOLEAN, s \in Sources, d \in Destinations, r \in Relays,
      q \in BOOLEAN, dir \in BOOLEAN }

\* direct and group messages that have been marked visited or not
VisitedMsgs ==
  { WithVisited(Mk(FALSE, 1, d, NoId, TRUE, dir), TRUE, v) :
      d \in Destinations, dir \in BOOLEAN, v \in BOOLEAN }

\* messages that fail validation: no hops left, or required fields missing
InvalidMsgs ==
  { [Mk(rm, 1, d, NoId, q, TRUE) EXCEPT !.hops_to_live = h, !.initialized = i] :
      rm \in BOOLEAN, d \in {Self, 1}, q \in BOOLEAN,
      h \in 0..1, i \in BOOLEAN }

\* cacheable requests and responses
CacheMsgs ==
  { [Mk(FALSE, 1, d, NoId, q, dir) EXCEPT !.cacheable = TRUE] :
      d \in {Self, 1, MaxId + 1}, q \in BOOLEAN, dir \in BOOLEAN }

\* traffic of the client this node serves
ClientMsgs ==
  { [Mk(FALSE, s, ClientId, NoId, q, TRUE) EXCEPT !.client_node = TRUE] :
      s \in {1, ClientId}, q \in BOOLEAN }

\* routing messages of a type this node does not know
UnknownMsgs ==
  { [Mk(TRUE, 1, Self, NoId, q, TRUE) EXCEPT !.type = "Unknown"] : q \in BOOLEAN }

\* messages on their way through the network, with any number of hops left
HopMsgs ==
  { [Mk(rm, s, d, NoId, q, dir) EXCEPT !.hops_to_live = h] :
      rm \in BOOLEAN, s \in {NoId, 1}, d \in {1, MaxId + 1}, q \in BOOLEAN,
      dir \in BOOLEAN, h \in 0..HopsToLive }

\* group (non-direct) messages: every replication value, with and without a source
ReplicationMsgs ==
  { [Mk(rm, s, d, NoId, TRUE, FALSE) EXCEPT !.replication = r] :
      rm \in BOOLEAN, s \in {NoId, 1}, d \in {ZeroId, 1, MaxId, MaxId + 1},
      r \in 0..(NodeGroupSize + 1) }

\* group messages that carry the visited field, and group responses
GroupVisitedMsgs ==
  { WithVisited(Mk(FALSE, 1, d, NoId, q, FALSE), TRUE, v) :
      d \in {ZeroId, 1, MaxId, MaxId + 1}, q \in BOOLEAN, v \in BOOLEAN }

\* the close nodes a peer may report: none, a far node, this node, no valid id
UpdatePayloads == { {}, {1}, {Self}, {NoId} }

\* ClosestNodesUpdate messages, well formed or not
UpdateMsgs ==
  { [Mk(TRUE, 1, Self, NoId, q, TRUE) EXCEPT !.type = "ClosestNodesUpdate",
                                             !.upd_node = n, !.upd_nodes = ns,
                                             !.data = dt] :
      q \in BOOLEAN, n \in {NoId, 1, MaxId}, ns \in UpdatePayloads,
      dt \in {"rpc", "garbage"} }

\* ClosestNodesUpdateSubscribe messages, well formed or not
SubscribeMsgs ==
  { [Mk(TRUE, 1, Self, NoId, TRUE, TRUE) EXCEPT !.type = "ClosestNodesUpdateSubscribe",
                                                !.upd_node = n, !.subscribe = sb,
                                                !.data = dt] :
      n \in {NoId, 1, 2, MaxId}, sb \in BOOLEAN, dt \in {"rpc", "garbage"} }

\* a routing request for this node, and one that names this node as its relay
PingMsgs == { Mk(TRUE, 1, Self, NoId, TRUE, TRUE), Mk(TRUE, 1, 1, Self, TRUE, TRUE) }

GroupMsgs ==
  ReplicationMsgs \cup GroupVisitedMsgs \cup UpdateMsgs \cup SubscribeMsgs \cup PingMsgs

\* group requests that meet a routing table changing under them
RaceMsgs ==
  { [Mk(FALSE, s, d, NoId, TRUE, FALSE) EXCEPT !.replication = r] :
      s \in {NoId, 1}, d \in {1, MaxId}, r \in 1..NodeGroupSize }

\* route histories a message may arrive with: no duplicates, at most H entries
Histories ==
  { h \in UNION { [1..n -> {Self, 1, 2}] : n \in 0..MaxRouteHistory } :
      \A i, j \in 1..Len(h) : i # j => h[i] # h[j] }

\* what the callers of NetworkUtils hand to SendToClosestNode
SendMsgs ==
  { [Mk(FALSE, 1, d, rr[2], rr[1], dir) EXCEPT !.route_history = h] :
      d \in {1, ClientId}, rr \in { << TRUE, NoId >>, << FALSE, 2 >> },
      dir \in BOOLEAN, h \in Histories }
  \cup
  { [Mk(FALSE, 1, NoId, rr[2], rr[1], TRUE) EXCEPT !.route_history = h] :
      rr \in { << TRUE, NoId >>, << FALSE, NoId >>, << FALSE, 2 >> }, h \in Histories }

\* messages as their origin builds them: no route history yet
OriginMsgs ==
  { Mk(rm, 1, d, NoId, q, dir) :
      rm \in BOOLEAN, d \in {1, MaxId + 1}, q \in BOOLEAN, dir \in BOOLEAN }

\* the peers the outbound side is followed with
SendPeers == {1, 2, 3}

\* the results rudp reports to a message_sent_functor
SendResults == {"kSuccess", "kSendFailure", "kInvalidConnection"}

\* where Stop may cut into a send
StopPoints == {"none", "after_remove", "before_send"}

\* the peers the group-change handler is followed with
ChangePeers == {1, 2, 3}

\* ClosestNodesUpdate requests, well formed or not, for this node or (through
\* the relay guard) for another
ChangeUpdateMsgs ==
  { [Mk(TRUE, 1, d[1], d[2], TRUE, TRUE) EXCEPT !.type = "ClosestNodesUpdate",
                                                !.upd_node = n, !.upd_nodes = ns,
                                                !.data = dt] :
      d \in { << Self, NoId >>, << 1, Self >> }, n \in {NoId, 1, 3},
      ns \in UpdatePayloads, dt \in {"rpc", "garbage"} }

\* ClosestNodesUpdateSubscribe requests, likewise
ChangeSubscribeMsgs ==
  { [Mk(TRUE, 1, d[1], d[2], TRUE, TRUE) EXCEPT !.type = "ClosestNodesUpdateSubscribe",
                                                !.upd_node = n, !.subscribe = sb,
                                                !.data = dt] :
      d \in { << Self, NoId >>, << 1, Self >> }, n \in {NoId, 1, 3},
      sb \in BOOLEAN, dt \in {"rpc", "garbage"} }

ChangeMsgs == ChangeUpdateMsgs \cup ChangeSubscribeMsgs

\* the close-node vectors a caller may hand to SendClosestNodesUpdateRpcs
ChangeCloseNodes == { SortFromTarget(S, Self) : S \in SUBSET ChangePeers }

\* the peer whose updates to this node are followed through the transport
OrderPeer == 1

\* the close-node sets the peer's successive updates may carry
UpdateChoices == { {Self}, {2}, {Self, 2} }

\* the ClosestNodesUpdate request a peer's SendClosestNodesUpdateRpcs sends to
\* this node
UpdateFrom(peer, close_nodes) ==
  [Mk(TRUE, peer, Self, NoId, TRUE, TRUE) EXCEPT !.type = "ClosestNodesUpdate",
                                                 !.upd_node = peer,
                                                 !.upd_nodes = close_nodes,
                                                 !.data = "rpc"]

\* messages on their way to a destination several peers are closer to, with the
\* route history of the nodes that forwarded them
FarMsgs ==
  { [Mk(rm, 1, d, NoId, q, dir) EXCEPT !.route_history = h, !.hops_to_live = hl] :
      rm \in BOOLEAN, d \in {ZeroId, 1}, q \in BOOLEAN, dir \in BOOLEAN,
      h \in Histories, hl \in 1..HopsToLive }

ClassMsgs ==
  GuardMsgs \cup VisitedMsgs \cup InvalidMsgs \cup CacheMsgs \cup ClientMsgs
    \cup UnknownMsgs

\* what may differ between two runs on the same message
Envs(m, atomic) ==
  { [asserts |-> a, reply |-> r, svc |-> sv, hit |-> h, empty_id |-> e,
     atomic |-> atomic, stop |-> "none"] :
      a \in (IF m.hops_to_live <= 0
                \/ m.type \in {"ClosestNodesUpdate", "ClosestNodesUpdateSubscribe"}
               THEN BOOLEAN ELSE {FALSE}),
      r \in (IF m.request /\ ~m.routing_message
                /\ (m.destination_id = Self \/ ~m.direct)
               THEN {"none", "empty", "data"} ELSE {"none"}),
      sv \in (IF m.request /\ m.routing_message /\ m.type = "Ping"
                THEN {"clear", "respond"} ELSE {"clear"}),
      h \in (IF m.request /\ m.cacheable THEN BOOLEAN ELSE {FALSE}),
      e \in (IF m.request /\ m.source_id = NoId /\ ~m.routing_message
               THEN {"zero", "throw"} ELSE {"zero"}) }

(***************************************************************************)
(* Actions.                                                                *)
(***************************************************************************)
\* ManagedConnections: asio_service_(2), the threads that run posted handlers
PoolThreads == 2

\* the transport with nothing under way:
\*   issued    : the close-node sets the sending peer's updates carried, in order
\*   posted    : Send handlers posted on the sender's asio service, in order
\*   sending   : Send handlers a thread of the sender's pool is running
\*   slots     : OnMessageSlot handlers posted on this node's asio service
\*   receiving : OnMessageSlot handlers a thread of this node's pool is running
NoTraffic ==
  [issued |-> << >>, posted |-> << >>, sending |-> {}, slots |-> << >>, receiving |-> {},
   peer |-> [rt |-> {}, gm |-> ResizeMatrix(<< >>, {}), subs |-> << >>],
   to_peer |-> << >>, from_peer |-> << >>]

Init ==
  /\ rt = {}
  /\ nrt = {}
  /\ gm = ResizeMatrix(<< >>, {})
  /\ subs = << >>
  /\ stopped = FALSE
  /\ client_mode \in BOOLEAN
  /\ pc = "idle"
  /\ frame = IdleFrame
  /\ net = NoTraffic

\* a vault (client_mode = false)
InitVault == Init /\ ~client_mode

\* RoutingTable::AddNode
AddNode(p) ==
  /\ p \notin rt
  /\ Cardinality(rt) < MaxRT
  /\ rt' = rt \cup {p}
  /\ gm' = ResizeMatrix(gm, rt')
  /\ UNCHANGED << nrt, subs, stopped, client_mode, net, pc, frame >>

\* RoutingTable::DropNode, with the cascade to the matrix and the subscribers
DropNode(p) ==
  /\ p \in rt
  /\ rt' = rt \ {p}
  /\ gm' = ResizeMatrix(gm, rt')
  /\ subs' = SelectSeq(subs, LAMBDA n : n # p)
  /\ UNCHANGED << nrt, stopped, client_mode, net, pc, frame >>

\* NonRoutingTable::AddNode
AddClient(e) ==
  /\ ~client_mode
  /\ e \notin nrt
  /\ nrt' = nrt \cup {e}
  /\ UNCHANGED << rt, gm, subs, stopped, client_mode, net, pc, frame >>

\* NonRoutingTable::DropNode
DropClient(e) ==
  /\ e \in nrt
  /\ nrt' = nrt \ {e}
  /\ UNCHANGED << rt, gm, subs, stopped, client_mode, net, pc, frame >>

\* the transport delivers m: MessageHandler::HandleMessage runs
Receive(m, env) ==
  /\ Finish(HandleMessage(Ctx(NewFrame(m, env))))
  /\ UNCHANGED << rt, nrt >>

\* the next node on the route receives a copy this node forwarded; every node
\* runs the same handler, over whatever tables it holds by then
Hop ==
  /\ pc = "done"
  /\ frame.hops <= frame.first_htl
  /\ \E i \in 1..Len(frame.sent) :
       /\ IsCopyOf(frame.sent[i].msg, frame.msg_in)
       /\ \E env \in Envs(frame.sent[i].msg, TRUE) :
            Finish(HandleMessage(Ctx([NewFrame(frame.sent[i].msg, env)
                                        EXCEPT !.hops = frame.hops + 1,
                                               !.first_htl = frame.first_htl])))
  /\ UNCHANGED << rt, nrt >>

\* the group handler, resumed after its first statement: up to the arithmetic
StepDecide ==
  /\ pc = "have_read"
  /\ Finish(GroupDecide(Ctx(frame)))
  /\ UNCHANGED << rt, nrt >>

\* the group handler, resumed at GetClosestNodes
StepReplicate ==
  /\ pc = "replicate"
  /\ Finish(GroupReplicate(Ctx(frame)))
  /\ UNCHANGED << rt, nrt >>

\* the handler has returned
Return ==
  /\ pc = "done"
  /\ pc' = "idle"
  /\ frame' = IdleFrame
  /\ UNCHANGED << rt, nrt, gm, subs, stopped, client_mode, net >>

\* a run of NetworkUtils ends: the tables and the frame it leaves
FinishSend(c) ==
  /\ Finish([c EXCEPT !.env.stop = "none"])
  /\ rt' = c.rt
  /\ nrt' = c.nrt

\* NetworkUtils::Stop
Stop ==
  /\ ~stopped
  /\ stopped' = TRUE
  /\ UNCHANGED << rt, nrt, gm, subs, client_mode, net, pc, frame >>

\* a component of the node calls NetworkUtils::SendToClosestNode(m)
CallSendToClosestNode(m, stop) ==
  LET c == Ctx(NewFrame(m, [NoEnv EXCEPT !.stop = stop]))
  IN FinishSend(SendToClosestNode(c, m))

\* a component of the node calls NetworkUtils::SendToDirect(m, peer)
CallSendToDirectPeer(m, peer) ==
  FinishSend(SendToDirectPeer(Ctx(NewFrame(m, NoEnv)), m, peer))

\* a component of the node calls NetworkUtils::SendToDirect(m, peer, functor)
CallSendToDirectFunctor(m, peer) ==
  FinishSend(SendToDirectFunctor(Ctx(NewFrame(m, NoEnv)), m, peer))

\* the sends of RecursiveSendOn whose completion the transport has not reported
Pending(f) ==
  { i \in 1..Len(f.sent) :
      /\ f.sent[i].functor = "RecursiveSendOn"
      /\ \A k \in 1..Len(f.done) : f.done[k].send # i }

\* the transport reports the result of the i-th send: its message_sent_functor runs
Complete(i, message_sent, stop) ==
  /\ pc = "done"
  /\ i \in Pending(frame)
  /\ Len(frame.sent) < MaxSends
  /\ FinishSend(MessageSentFunctor(Ctx([frame EXCEPT !.env.stop = stop]), i, message_sent))

\* the next node on the route appends itself as RecursiveSendOn does there
Forward(n) ==
  /\ frame' = [frame EXCEPT !.msg = AdjustRouteHistoryAt(@, n), !.path = Append(@, n)]
  /\ UNCHANGED << rt, nrt, gm, subs, stopped, client_mode, net, pc >>

\* a run of the group-change handler ends: the tables and the frame it leaves
FinishChange(c) ==
  /\ rt' = c.rt
  /\ nrt' = c.nrt
  /\ gm' = c.gm
  /\ subs' = c.subs
  /\ frame' = FrameOf(c)
  /\ pc' = IF c.fault # "none" THEN "crashed" ELSE "done"
  /\ UNCHANGED << stopped, client_mode, net >>

\* the transport delivers a group-change request: MessageHandler::HandleMessage runs
ReceiveChange(m, env) == FinishChange(HandleMessage(Ctx(NewFrame(m, env))))

\* the frame of a call made on GroupChangeHandler directly; m records the arguments
CallFrame(name, m, asserts) ==
  Enter(Ctx(NewFrame(m, [NoEnv EXCEPT !.asserts = asserts])), name)

\* GroupChangeHandler::Subscribe(node_id) up to the lock_guard: the close nodes
\* have been read, the mutex is not yet taken
CallSubscribe(node_id) ==
  LET connected_closest_nodes == GetClosestNodeInfo(rt, ClosestNodesSize)
      c == CallFrame("Subscribe",
                     ClosestNodesUpdateRequest(node_id, Range(connected_closest_nodes)),
                     FALSE)
  IN /\ frame' = FrameOf(c)
     /\ pc' = IF Len(connected_closest_nodes) < ClosestNodesSize THEN "done"
              ELSE "subscribing"
     /\ UNCHANGED << rt, nrt, gm, subs, stopped, client_mode, net >>

\* GroupChangeHandler::Subscribe from the lock_guard to its return
StepSubscribe ==
  /\ pc = "subscribing"
  /\ FinishChange(SubscribeLocked(Ctx(frame), frame.msg.destination_id,
                                  GetClosestNodes(frame.msg.upd_nodes, Self,
                                                  ClosestNodesSize)))

\* a call of another thread that runs while Subscribe waits for the mutex: its
\* effect on the tables is kept, its sends are that thread's own
Beside(c) ==
  /\ pc = "subscribing"
  /\ rt' = c.rt
  /\ nrt' = c.nrt
  /\ gm' = c.gm
  /\ subs' = c.subs
  /\ pc' = IF c.fault # "none" THEN "crashed" ELSE pc
  /\ frame' = [frame EXCEPT !.fault = c.fault]
  /\ UNCHANGED << stopped, client_mode, net >>

\* a callback calls GroupChangeHandler::Unsubscribe(node_id)
CallUnsubscribe(node_id) ==
  FinishChange(Unsubscribe(CallFrame("Unsubscribe", SubscribeRpc(node_id, FALSE), FALSE),
                           node_id))

\* a callback calls GroupChangeHandler::SendSubscribeRpc(subscribe, node_info)
CallSendSubscribeRpc(subscribe, node_id) ==
  FinishChange(SendSubscribeRpc(CallFrame("SendSubscribeRpc",
                                          SubscribeRpc(node_id, subscribe), FALSE),
                                subscribe, node_id))

\* a callback calls GroupChangeHandler::SendClosestNodesUpdateRpcs(closest_nodes)
CallSendClosestNodesUpdateRpcs(closest_nodes, asserts) ==
  FinishChange(SendClosestNodesUpdateRpcs(
                 CallFrame("SendClosestNodesUpdateRpcs",
                           ClosestNodesUpdateRequest(NoId, Range(closest_nodes)), asserts),
                 closest_nodes))

\* the peer's SendClosestNodesUpdateRpcs reaches this node's entry of its
\* subscribers: ManagedConnections::Send posts the handler that will send
PeerSendsUpdate(close_nodes) ==
  /\ Len(net.issued) < MaxUpdates
  /\ net.issued # << >> => close_nodes # net.issued[Len(net.issued)]
  /\ net' = [net EXCEPT !.issued = Append(@, close_nodes),
                        !.posted = Append(@, [seq |-> Len(net.issued) + 1,
                                              msg |-> UpdateFrom(OrderPeer, close_nodes)])]
  /\ UNCHANGED << rt, nrt, gm, subs, stopped, client_mode, pc, frame >>

\* a free thread of the sender's asio service takes the next posted handler
SenderTakes ==
  /\ net.posted # << >>
  /\ Cardinality(net.sending) < PoolThreads
  /\ net' = [net EXCEPT !.posted = Tail(@), !.sending = @ \cup {Head(net.posted)}]
  /\ UNCHANGED << rt, nrt, gm, subs, stopped, client_mode, pc, frame >>

\* the handler sends: FakeNetwork::SendMessageToNode invokes this node's
\* message_received, and OnMessageSlot posts the delivery on this node's service
SenderDelivers(t) ==
  /\ t \in net.sending
  /\ net' = [net EXCEPT !.sending = @ \ {t}, !.slots = Append(@, t)]
  /\ UNCHANGED << rt, nrt, gm, subs, stopped, client_mode, pc, frame >>

\* a free thread of this node's asio service takes the next posted delivery
ReceiverTakes ==
  /\ net.slots # << >>
  /\ Cardinality(net.receiving) < PoolThreads
  /\ net' = [net EXCEPT !.slots = Tail(@), !.receiving = @ \cup {Head(net.slots)}]
  /\ UNCHANGED << rt, nrt, gm, subs, stopped, client_mode, pc, frame >>

\* what a delivered message's handler leaves behind, the delivery t being over
FinishDelivery(c, t) ==
  /\ rt' = c.rt
  /\ nrt' = c.nrt
  /\ gm' = c.gm
  /\ subs' = c.subs
  /\ frame' = FrameOf(c)
  /\ pc' = IF c.fault # "none" THEN "crashed" ELSE "done"
  /\ net' = [net EXCEPT !.receiving = @ \ {t}]
  /\ UNCHANGED << stopped, client_mode >>

\* the delivery runs: message_received_functor_ hands the message to
\* MessageHandler::HandleMessage
ReceiverRuns(t) ==
  /\ t \in net.receiving
  /\ pc \in {"idle", "done"}
  /\ FinishDelivery(HandleMessage(Ctx(NewFrame(t.msg, NoEnv))), t)

\* the run on this node is the one an eviction started
Evicted(f) == f.path # << >> /\ f.path[1] = "Evict"

\* a peer is evicted from the routing table: the table and the matrix lose it;
\* the frame keeps the evicted peer and the close nodes there were before
Evict(p) ==
  /\ p \in rt
  /\ rt' = rt \ {p}
  /\ gm' = ResizeMatrix(gm, rt')
  /\ frame' = FrameOf(CallFrame("Evict",
                                [SubscribeRpc(p, FALSE) EXCEPT
                                   !.upd_nodes = Range(GetClosestNodeInfo(rt, ClosestNodesSize))],
                                FALSE))
  /\ pc' = "evicting"
  /\ UNCHANGED << nrt, subs, stopped, client_mode, net >>

\* ManagedConnections::Send, once for every send of the run: each posts its
\* handler on this node's asio service
PostEach(sent) == [i \in 1..Len(sent) |-> [seq |-> i, msg |-> sent[i].msg]]

\* what the run an eviction started leaves behind
FinishEviction(c) ==
  /\ rt' = c.rt
  /\ nrt' = c.nrt
  /\ gm' = c.gm
  /\ subs' = c.subs
  /\ frame' = FrameOf(c)
  /\ pc' = IF c.fault # "none" THEN "crashed" ELSE "done"
  /\ net' = [net EXCEPT !.posted = @ \o PostEach(c.sent)]
  /\ UNCHANGED << stopped, client_mode >>

\* the group-change calls that follow the eviction: the evicted peer is told to
\* unsubscribe, the subscribers are sent the close nodes there are now
StepEvict ==
  /\ pc = "evicting"
  /\ LET c1 == SendSubscribeRpc(Ctx(frame), FALSE, frame.msg.destination_id)
     IN FinishEviction(IF c1.fault # "none" THEN c1
                       ELSE SendClosestNodesUpdateRpcs(
                              c1, GetClosestNodeInfo(rt, ClosestNodesSize)))

\* the second node of an exchange, running the same code; its tables and the
\* messages on their way to it are written as it sees them, so that it is
\* routing_table_.kNodeId() there and this node is ExchangePeer
ExchangePeer == 5
ExchangeOthers == {2, 3}

\* a node id as the other node of the exchange sees it: the XOR distances
\* between ids are the same on both sides
Mirror(id) ==
  IF id \in {Self, ExchangePeer} \cup ExchangeOthers
    THEN Xor(id, Xor(Self, ExchangePeer))
  ELSE id

\* the messages of a run that go to the other node of the exchange, as that
\* node sees them
Across(sent) ==
  LET there == SelectSeq(sent, LAMBDA s : s.conn = ExchangePeer)
  IN [i \in 1..Len(there) |->
        [there[i].msg EXCEPT !.source_id = Mirror(@), !.destination_id = Mirror(@),
                             !.upd_node = Mirror(@),
                             !.upd_nodes = { Mirror(n) : n \in @ }]]

\* the two nodes connect: each enters the other in its routing table
Connect ==
  /\ net.issued = << >>
  /\ ExchangePeer \notin rt
  /\ rt' = rt \cup {ExchangePeer}
  /\ gm' = ResizeMatrix(gm, rt')
  /\ net' = [net EXCEPT !.peer.rt = @ \cup {ExchangePeer},
                        !.peer.gm = ResizeMatrix(@, net.peer.rt \cup {ExchangePeer})]
  /\ UNCHANGED << nrt, subs, stopped, client_mode, pc, frame >>

\* the other node connects to a third node
PeerAddNode(p) ==
  /\ net.issued = << >>
  /\ p \notin net.peer.rt
  /\ net' = [net EXCEPT !.peer.rt = @ \cup {p},
                        !.peer.gm = ResizeMatrix(@, net.peer.rt \cup {p})]
  /\ UNCHANGED << rt, nrt, gm, subs, stopped, client_mode, pc, frame >>

\* the one request the exchange starts from, sent by this node
StartExchange(m) ==
  /\ net.issued = << >>
  /\ ExchangePeer \in rt
  /\ net' = [net EXCEPT !.issued = << m.upd_nodes >>,
                        !.to_peer = Across(<< [conn |-> ExchangePeer, msg |-> m] >>)]
  /\ UNCHANGED << rt, nrt, gm, subs, stopped, client_mode, pc, frame >>

\* what a message's handler leaves behind on the other node
FinishAtPeer(c) ==
  /\ net' = [net EXCEPT !.to_peer = Tail(@),
                        !.peer = [rt |-> c.rt, gm |-> c.gm, subs |-> c.subs],
                        !.from_peer = @ \o Across(c.sent)]
  /\ UNCHANGED << rt, nrt, gm, subs, stopped, client_mode, pc, frame >>

\* the other node is delivered its next message: MessageHandler::HandleMessage
\* runs there on that node's tables
PeerRuns ==
  /\ net.to_peer # << >>
  /\ \E c0 \in { [Ctx(NewFrame(Head(net.to_peer), NoEnv)) EXCEPT
                      !.rt = net.peer.rt, !.gm = net.peer.gm, !.subs = net.peer.subs,
                      !.nrt = {}, !.pc = "idle"] } :
       \E c \in { HandleMessage(c0) } : FinishAtPeer(c)

\* what a message's handler leaves behind on this node
FinishExchange(c) ==
  /\ rt' = c.rt
  /\ nrt' = c.nrt
  /\ gm' = c.gm
  /\ subs' = c.subs
  /\ frame' = FrameOf(c)
  /\ pc' = IF c.fault # "none" THEN "crashed" ELSE "done"
  /\ net' = [net EXCEPT !.from_peer = Tail(@), !.to_peer = @ \o Across(c.sent)]
  /\ UNCHANGED << stopped, client_mode >>

\* this node is delivered its next message
SelfRuns ==
  /\ net.from_peer # << >>
  /\ pc \in {"idle", "done"}
  /\ \E c0 \in { Ctx(NewFrame(Head(net.from_peer), NoEnv)) } :
       \E c \in { HandleMessage(c0) } : FinishExchange(c)

\* NetworkUtils::RudpSend under the read guard: ManagedConnections::Send posts
\* the handler of one send on the transport's asio service
PostSend(p) ==
  /\ pc = "idle" /\ ~stopped
  /\ p \in rt
  /\ Len(net.issued) < MaxSends
  /\ net' = [net EXCEPT !.issued = Append(@, p),
                        !.posted = Append(@, [seq |-> Len(net.issued) + 1, peer |-> p,
                                              at |-> "send"])]
  /\ UNCHANGED << rt, nrt, gm, subs, stopped, client_mode, pc, frame >>

\* the handler sends and calls message_sent_functor with the result: a success
\* is logged and the handler is over, a failure goes on to a read guard
HandlerSends(t, message_sent) ==
  /\ t \in net.sending /\ t.at = "send"
  /\ net' = [net EXCEPT !.sending = IF message_sent = "kSuccess" THEN @ \ {t}
                                    ELSE (@ \ {t}) \cup {[t EXCEPT !.at = "guard"]}]
  /\ UNCHANGED << rt, nrt, gm, subs, stopped, client_mode, pc, frame >>

\* the functor gets the read guard, which it cannot while Stop holds the write
\* guard: stopped, it returns; else it goes on to send again
FunctorGuarded(t) ==
  /\ t \in net.sending /\ t.at = "guard"
  /\ pc # "joining"
  /\ net' = [net EXCEPT !.sending = IF stopped THEN @ \ {t}
                                    ELSE (@ \ {t}) \cup {[t EXCEPT !.at = "resend"]}]
  /\ UNCHANGED << rt, nrt, gm, subs, stopped, client_mode, pc, frame >>

\* the functor's RecursiveSendOn reaches RudpSend, which needs the read guard
\* again and posts the next handler unless stopped
FunctorResends(t) ==
  /\ t \in net.sending /\ t.at = "resend"
  /\ pc # "joining"
  /\ net' = [net EXCEPT
               !.sending = @ \ {t},
               !.issued = IF stopped \/ Len(@) >= MaxSends THEN @ ELSE Append(@, t.peer),
               !.posted = IF stopped \/ Len(net.issued) >= MaxSends THEN @
                          ELSE Append(@, [seq |-> Len(net.issued) + 1, peer |-> t.peer,
                                          at |-> "send"])]
  /\ UNCHANGED << rt, nrt, gm, subs, stopped, client_mode, pc, frame >>

\* NetworkUtils::Stop takes the write guard, sets stopped_ and resets rudp_:
\* ~ManagedConnections stops the asio service and waits for its threads
StopLocks ==
  /\ pc = "idle" /\ ~stopped
  /\ stopped' = TRUE
  /\ pc' = "joining"
  /\ UNCHANGED << rt, nrt, gm, subs, client_mode, frame, net >>

\* the threads of the asio service are joined, none of them being in a handler;
\* handlers not yet taken are destroyed; Stop releases the guard and returns
StopJoins ==
  /\ pc = "joining"
  /\ net.sending = {}
  /\ pc' = "done"
  /\ net' = [net EXCEPT !.posted = << >>]
  /\ UNCHANGED << rt, nrt, gm, subs, stopped, client_mode, frame >>

(***************************************************************************)
(* Specifications.                                                         *)
(***************************************************************************)
\* a vault or a client classifying whatever the transport delivers
Next ==
  \/ pc = "idle" /\ \E p \in Peers : AddNode(p)
  \/ pc = "idle" /\ \E p \in Peers : DropNode(p)
  \/ pc = "idle" /\ \E e \in ClientConns : AddClient(e)
  \/ pc = "idle" /\ \E e \in ClientConns : DropClient(e)
  \/ pc = "idle" /\ \E m \in ClassMsgs : \E env \in Envs(m, TRUE) : Receive(m, env)
  \/ Return

Spec == Init /\ [][Next]_vars

\* one message followed from node to node; the tables it meets differ
NextHops ==
  \/ pc \in {"idle", "done"} /\ \E p \in Peers : AddNode(p)
  \/ pc \in {"idle", "done"} /\ \E p \in Peers : DropNode(p)
  \/ pc = "idle" /\ \E m \in HopMsgs : \E env \in Envs(m, TRUE) : Receive(m, env)
  \/ Hop
  \/ Return

SpecHops == Init /\ [][NextHops]_vars

\* a vault with its group matrix and subscribers, handling group traffic
NextGroup ==
  \/ pc = "idle" /\ \E p \in Peers : AddNode(p)
  \/ pc = "idle" /\ \E p \in Peers : DropNode(p)
  \/ pc = "idle" /\ \E m \in GroupMsgs : \E env \in Envs(m, TRUE) : Receive(m, env)
  \/ Return

SpecGroup == InitVault /\ [][NextGroup]_vars

\* a vault whose connection callbacks run beside the group handler
NextRace ==
  \/ pc \in {"idle", "have_read", "replicate"} /\ \E p \in Peers : AddNode(p)
  \/ pc \in {"idle", "have_read", "replicate"} /\ \E p \in Peers : DropNode(p)
  \/ pc = "idle" /\ \E m \in RaceMsgs : \E env \in Envs(m, FALSE) : Receive(m, env)
  \/ StepDecide
  \/ StepReplicate
  \/ Return

SpecRace == InitVault /\ [][NextRace]_vars

\* the outbound side: sends, their completions, retries, evictions and Stop
NextSend ==
  \/ pc = "idle" /\ \E p \in SendPeers : AddNode(p)
  \/ pc = "idle" /\ \E p \in SendPeers : DropNode(p)
  \/ pc \in {"idle", "done"} /\ \E e \in ClientConns : AddClient(e)
  \/ pc = "idle" /\ \E e \in ClientConns : DropClient(e)
  \/ pc \in {"idle", "done"} /\ Stop
  \/ pc = "idle" /\ \E m \in SendMsgs : \E st \in StopPoints : CallSendToClosestNode(m, st)
  \/ pc = "idle" /\ \E m \in PingMsgs : \E p \in rt : CallSendToDirectPeer(m, p)
  \/ pc = "idle" /\ \E m \in PingMsgs : \E p \in rt : CallSendToDirectFunctor(m, p)
  \/ \E i \in 1..MaxSends : \E r \in SendResults : \E st \in StopPoints : Complete(i, r, st)
  \/ Return

SpecSend == InitVault /\ [][NextSend]_vars

\* the group-change handler: inbound requests, the calls other components make
\* on it, and connections coming and going beside a Subscribe
NextChange ==
  \/ pc \in {"idle", "subscribing"} /\ \E p \in ChangePeers : AddNode(p)
  \/ pc \in {"idle", "subscribing"} /\ \E p \in ChangePeers : DropNode(p)
  \/ pc = "idle" /\ \E m \in ChangeMsgs : \E env \in Envs(m, TRUE) : ReceiveChange(m, env)
  \/ pc = "idle" /\ \E p \in ChangePeers : CallSubscribe(p)
  \/ StepSubscribe
  \/ \E p \in ChangePeers : Beside(Subscribe(Ctx(IdleFrame), p))
  \/ \E p \in ChangePeers : Beside(Unsubscribe(Ctx(IdleFrame), p))
  \/ \E p \in ChangePeers : Beside(SendSubscribeRpc(Ctx(IdleFrame), FALSE, p))
  \/ pc = "idle" /\ \E p \in ChangePeers : CallUnsubscribe(p)
  \/ pc = "idle" /\ \E sb \in BOOLEAN : \E p \in ChangePeers : CallSendSubscribeRpc(sb, p)
  \/ pc = "idle" /\ \E cn \in ChangeCloseNodes : \E a \in BOOLEAN :
                       CallSendClosestNodesUpdateRpcs(cn, a)
  \/ Return

SpecChange == InitVault /\ [][NextChange]_vars

\* the updates of one peer on their way to this node through the two thread
\* pools of the transport
NextOrder ==
  \/ pc = "idle" /\ net = NoTraffic /\ \E p \in ChangePeers : AddNode(p)
  \/ OrderPeer \in rt /\ \E ns \in UpdateChoices : PeerSendsUpdate(ns)
  \/ SenderTakes
  \/ \E t \in net.sending : SenderDelivers(t)
  \/ ReceiverTakes
  \/ \E t \in net.receiving : ReceiverRuns(t)

SpecOrder == InitVault /\ [][NextOrder]_vars

\* one eviction on a node that has peers and subscribers, and the messages the
\* eviction sends on their way through the transport
NextEvict ==
  \/ pc = "idle" /\ \E p \in ChangePeers : AddNode(p)
  \/ pc = "idle" /\ \E p \in ChangePeers : CallSubscribe(p)
  \/ StepSubscribe
  \/ ~Evicted(frame) /\ Return
  \/ pc = "idle" /\ \E p \in ChangePeers : Evict(p)
  \/ StepEvict
  \/ SenderTakes
  \/ \E t \in net.sending : SenderDelivers(t)

\* a started run goes on and a posted handler is run in the end
SpecEvict ==
  /\ InitVault
  /\ [][NextEvict]_vars
  /\ WF_vars(StepEvict)
  /\ WF_vars(SenderTakes)
  /\ WF_vars(\E t \in net.sending : SenderDelivers(t))

\* a vault passing on messages that are on their way to a far destination
NextFar ==
  \/ pc = "idle" /\ \E p \in Peers : AddNode(p)
  \/ pc = "idle" /\ \E p \in Peers : DropNode(p)
  \/ pc = "idle" /\ \E m \in FarMsgs : \E env \in Envs(m, TRUE) : Receive(m, env)
  \/ Return

SpecFar == InitVault /\ [][NextFar]_vars

\* two connected nodes and the subscribe and update requests between them; the
\* tables are set up before the first request and left alone after it
NextExchange ==
  \/ Connect
  \/ net.issued = << >> /\ \E p \in ExchangeOthers : AddNode(p)
  \/ \E p \in ExchangeOthers : PeerAddNode(p)
  \/ StartExchange(SubscribeRpc(ExchangePeer, TRUE))
  \/ StartExchange(ClosestNodesUpdateRequest(
                     ExchangePeer, Range(GetClosestNodeInfo(rt, ClosestNodesSize))))
  \/ PeerRuns
  \/ SelfRuns

\* the handlers of sends on the threads of the transport, and Stop beside them
NextStop ==
  \/ pc = "idle" /\ net = NoTraffic /\ \E p \in SendPeers : AddNode(p)
  \/ \E p \in SendPeers : PostSend(p)
  \/ pc # "done" /\ SenderTakes
  \/ \E t \in net.sending : \E r \in SendResults : HandlerSends(t, r)
  \/ \E t \in net.sending : FunctorGuarded(t)
  \/ \E t \in net.sending : FunctorResends(t)
  \/ StopLocks
  \/ StopJoins

\* a thread that can go on does, and so does Stop
SpecStop ==
  /\ InitVault
  /\ [][NextStop]_vars
  /\ WF_vars(\E t \in net.sending : \E r \in SendResults : HandlerSends(t, r))
  /\ WF_vars(\E t \in net.sending : FunctorGuarded(t))
  /\ WF_vars(\E t \in net.sending : FunctorResends(t))
  /\ WF_vars(StopJoins)

\* a message on its way is delivered in the end
SpecExchange ==
  /\ InitVault
  /\ [][NextExchange]_vars
  /\ WF_vars(PeerRuns)
  /\ WF_vars(SelfRuns)

\* a message on its way from its origin, through any nodes in any order
InitRoute ==
  /\ rt = {}
  /\ nrt = {}
  /\ gm = ResizeMatrix(<< >>, {})
  /\ subs = << >>
  /\ stopped = FALSE
  /\ client_mode = FALSE
  /\ pc = "done"
  /\ \E m \in OriginMsgs : frame = NewFrame(m, NoEnv)
  /\ net = NoTraffic

NextRoute ==
  \E n \in NodeIds : Len(frame.path) < MaxForwards /\ Forward(n)

SpecRoute == InitRoute /\ [][NextRoute]_vars

(***************************************************************************)
(* Properties.                                                             *)
(***************************************************************************)
Finished == pc \in {"done", "crashed"}

\* the handler HandleMessage dispatched the received message to
Outcome(f) ==
  LET rest == SelectSeq(f.path, LAMBDA h : h \notin {"HandleMessage", "StoreCacheCopy"})
  IN IF rest = << >> THEN "none" ELSE rest[1]

\* the outcome the listed guards give, the first that holds deciding
ListedOutcome(m) ==
  LET dest == TargetOf(m.destination_id)
  IN IF ~m.initialized \/ m.hops_to_live <= 0 THEN "ValidateFailed"
     ELSE IF ~client_mode /\ ~m.routing_message /\ m.cacheable /\ m.request
       THEN "HandleCacheLookup"
     ELSE IF m.source_id = Self /\ m.destination_id = Self /\ m.request /\ ~m.direct
       THEN "HandleGroupMessageToSelfId"
     ELSE IF client_mode THEN "HandleClientMessage"
     ELSE IF m.source_id = NoId THEN "HandleRelayRequest"
     ELSE IF m.source_id = ZeroId THEN "StrayMessageDropped"
     ELSE IF m.destination_id = Self THEN "HandleMessageForThisNode"
     ELSE IF m.routing_message /\ ~m.request /\ m.relay_id = Self
       THEN "HandleRoutingMessage"
     ELSE IF NrtIsConnected(nrt, dest) /\ m.direct
       THEN "HandleMessageForNonRoutingNodes"
     ELSE IF IsThisNodeInRange(rt, dest, NodeGroupSize)
             \/ (IsThisNodeClosestTo(rt, dest, ~m.direct) /\ m.visited)
       THEN "HandleMessageAsClosestNode"
     ELSE "HandleMessageAsFarNode"

\* C1: every received message takes exactly the outcome of the first listed guard
\* that holds, guard 10 being "a routing response whose relay_id is this node"
C1_GuardsInListedOrder ==
  Finished => Outcome(frame) = ListedOutcome(frame.msg_in)

\* C2: a message that fails validation or arrives with no hops left is dropped:
\* nothing is sent, nothing is delivered, the group matrix and the subscribers
\* are as before, and the node does not abort
C2_InvalidIsDropped ==
  (Finished /\ ~(frame.msg_in.initialized /\ frame.msg_in.hops_to_live > 0))
    => /\ frame.calls = << >>
       /\ frame.sent = << >>
       /\ frame.log = << >>
       /\ gm = frame.gm_in
       /\ subs = frame.subs_in
       /\ frame.fault = "none"
       /\ pc = "done"

InPath(f, h) == \E i \in DOMAIN f.path : f.path[i] = h

\* the messages handed to the transport that are the received message, passed on
ForwardedCopies(f) ==
  { f.sent[i].msg : i \in { j \in DOMAIN f.sent : IsCopyOf(f.sent[j].msg, f.msg_in) } }

SameId(a, b) == a = b \/ (a < 0 /\ b < 0)

CountInPath(f, h) == Cardinality({ i \in DOMAIN f.path : f.path[i] = h })

\* the application deliveries of the run: positions in the log
Deliveries(f) == { i \in DOMAIN f.log : f.log[i].kind = "app" }

\* the reply to delivery i was built and left through SendToClosestNode
ReplySent(f, i) ==
  /\ i < Len(f.log)
  /\ f.log[i + 1].kind = "reply"
  /\ f.log[i + 1].at < Len(f.calls)
  /\ f.calls[f.log[i + 1].at + 1].op = "SendToClosestNode"
  /\ f.calls[f.log[i + 1].at + 1].msg = f.log[i + 1].msg
  /\ CountInPath(f, "HandleMessage") = 1

\* the reply to delivery i was built and handed to HandleMessage of this node
ReplyHandledLocally(f, i) ==
  /\ i < Len(f.log)
  /\ f.log[i + 1].kind = "reply"
  /\ \A k \in DOMAIN f.calls : f.calls[k].msg # f.log[i + 1].msg
  /\ CountInPath(f, "HandleMessage") = 2

\* C4: a delivered application request answered with a payload yields a response
\* to the request's source, from this node, with the request's id, request =
\* false and hops_to_live reset; it goes out through SendToClosestNode, or to
\* this node's own HandleMessage when it is addressed to this node and this node
\* is no client; an empty reply yields no message
C4_ReplyRoundTrip ==
  Finished => \A i \in Deliveries(frame) :
    LET r == frame.log[i].msg
    IN /\ r.destination_id = Self
       /\ r.request
       /\ IF frame.env.reply = "data"
            THEN /\ i < Len(frame.log)
                 /\ LET out == frame.log[i + 1].msg
                    IN /\ SameId(out.destination_id, r.source_id)
                       /\ out.source_id = Self
                       /\ out.id = r.id
                       /\ out.request = FALSE
                       /\ out.hops_to_live = HopsToLive
                       /\ IF ~client_mode /\ out.destination_id = Self
                            THEN ReplyHandledLocally(frame, i)
                          ELSE ReplySent(frame, i)
          ELSE /\ i = Len(frame.log)
               /\ Len(frame.calls) = frame.log[i].at

\* a request from a peer was delivered, answered, and the answer left for the peer
C4_Witness ==
  /\ pc = "done"
  /\ frame.env.reply = "data"
  /\ \E i \in Deliveries(frame) :
       /\ frame.log[i].msg.source_id = 1
       /\ ReplySent(frame, i)
       /\ frame.sent # << >>

\* the received message after the decrement of HandleMessage
Decremented(f) == [f.msg_in EXCEPT !.hops_to_live = f.msg_in.hops_to_live - 1]

ForwardCall(m) == [op |-> "SendToClosestNode", peer |-> NoId, conn |-> NoId, msg |-> m]

\* the destination of the received message is a connected peer or client
DestinationConnected(f) ==
  \/ RtIsConnected(rt, TargetOf(f.msg_in.destination_id))
  \/ NrtIsConnected(nrt, TargetOf(f.msg_in.destination_id))

\* a direct message reached the as-closest handler at the node closest to it
DirectAtClosest(f) ==
  /\ InPath(f, "HandleDirectMessageAsClosestNode")
  /\ IsThisNodeClosestTo(rt, TargetOf(f.msg_in.destination_id), FALSE)

\* C8: a direct message handled as closest node by the node closest to its
\* destination is forwarded when the destination is connected; when it is not,
\* it is marked visited and forwarded once if it was not visited, and dropped
\* without any send if it was
C8_DirectAsClosest ==
  (Finished /\ DirectAtClosest(frame)) =>
    LET m == Decremented(frame)
    IN IF DestinationConnected(frame)
         THEN frame.calls = << ForwardCall(m) >> /\ Len(frame.sent) >= 1
       ELSE IF ~m.has_visited \/ ~m.visited
         THEN /\ frame.calls = << ForwardCall(WithVisited(m, TRUE, TRUE)) >>
              /\ Len(frame.sent) <= 1
       ELSE frame.calls = << >> /\ frame.sent = << >>

\* a direct message to an id nobody is connected to, not yet visited, went on
\* marked visited
C8_Witness ==
  /\ pc = "done"
  /\ DirectAtClosest(frame)
  /\ ~DestinationConnected(frame)
  /\ ~frame.msg_in.visited
  /\ Len(frame.sent) = 1
  /\ frame.sent[1].msg.visited

Min(a, b) == IF a < b THEN a ELSE b

\* the group id of the received message
GroupId(f) == TargetOf(f.msg_in.destination_id)

RelayRun(f) == InPath(f, "HandleGroupRelayRequestMessageAsClosestNode")

\* the run entered one of the two group handlers
GroupEntered(f) == InPath(f, "HandleGroupMessageAsClosestNode") \/ RelayRun(f)

\* the group handler did not pass the message on before consulting the matrix
AtMatrix(f) ==
  /\ GroupEntered(f)
  /\ IsThisNodeClosestTo(rt, GroupId(f), TRUE) \/ RtIsConnected(rt, GroupId(f))
  /\ ~ /\ ~RelayRun(f)
       /\ f.msg_in.has_visited
       /\ ~f.msg_in.visited
       /\ Cardinality(rt) > ClosestNodesSize
       /\ ~IsThisNodeInRange(rt, GroupId(f), ClosestNodesSize)

\* this node is the group leader for the received group message
Leads(f) == AtMatrix(f) /\ IsThisNodeGroupLeader(rt, f.gm_in, GroupId(f))

\* the copy of the received message sent to replica p
ReplicaCopy(f, p) ==
  [Decremented(f) EXCEPT !.destination_id = p, !.direct = TRUE,
                         !.source_id = IF RelayRun(f) THEN Self ELSE @]

ReplicaCall(f, p) ==
  [op |-> "SendToDirect", peer |-> p, conn |-> NodeInfo(p).connection_id,
   msg |-> ReplicaCopy(f, p)]

\* the local dispatches of the run: positions in the log
LocalDispatches(f) ==
  { i \in DOMAIN f.log : f.log[i].kind \in {"app", "service", "timer"} }

\* the first n calls are the replica sends to close, in order, then the message
\* is dispatched once at this node with destination_id = self
FansOut(f, close, n) ==
  /\ Len(f.calls) >= n
  /\ Len(close) >= n
  /\ \A k \in 1..n : f.calls[k] = ReplicaCall(f, close[k])
  /\ \A k \in (n + 1)..Len(f.calls) : ~IsCopyOf(f.calls[k].msg, f.msg_in)
  /\ \E i \in DOMAIN f.log :
       /\ LocalDispatches(f) = {i}
       /\ f.log[i].at = n
       /\ f.log[i].msg.destination_id = Self
       /\ f.log[i].msg.direct
       /\ IsCopyOf(f.log[i].msg, f.msg_in)

\* the case of C5: leader, replication in range, no peer with the group's id
LeadsInRange(f) ==
  /\ Leads(f)
  /\ f.msg_in.replication \in 1..NodeGroupSize
  /\ ~RtIsConnected(rt, GroupId(f))

\* C5 (as stated): the group leader makes exactly r - 1 SendToDirect calls, to
\* the r - 1 peers closest to the destination, then dispatches locally once
C5_ExactlyRMinusOne ==
  (Finished /\ LeadsInRange(frame)) =>
    FansOut(frame, GetClosestNodes(rt, GroupId(frame), frame.msg_in.replication - 1),
            frame.msg_in.replication - 1)

\* C5 (amended): the group leader makes exactly min(r - 1, |RT|) SendToDirect
\* calls, one to each of the peers closest to the destination in order of
\* closeness, each copy with destination_id = that peer and direct = true, then
\* dispatches the message locally exactly once with destination_id = self
C5_FanOut ==
  (Finished /\ LeadsInRange(frame)) =>
    FansOut(frame, GetClosestNodes(rt, GroupId(frame), frame.msg_in.replication - 1),
            Min(frame.msg_in.replication - 1, Cardinality(rt)))

\* a leader with enough peers sent two replicas and delivered locally
C5_Witness ==
  /\ pc = "done"
  /\ LeadsInRange(frame)
  /\ frame.msg_in.replication = NodeGroupSize
  /\ Cardinality(rt) >= NodeGroupSize - 1
  /\ Len(frame.sent) >= NodeGroupSize - 1
  /\ LocalDispatches(frame) # {}

\* C6: the group leader drops a message whose replication is outside [1, G]:
\* no send, no local dispatch, direct and destination_id as received
C6_BadReplicationDropped ==
  (Finished /\ Leads(frame) /\ frame.msg_in.replication \notin 1..NodeGroupSize) =>
    /\ frame.calls = << >>
    /\ frame.sent = << >>
    /\ frame.log = << >>
    /\ frame.msg = Decremented(frame)
    /\ frame.msg.direct = frame.msg_in.direct
    /\ frame.msg.destination_id = frame.msg_in.destination_id
    /\ pc = "done"

\* a leader with peers to replicate to met replication = G + 1 and sent nothing
C6_Witness ==
  /\ pc = "done"
  /\ Leads(frame)
  /\ frame.msg_in.replication = NodeGroupSize + 1
  /\ rt # {}
  /\ frame.calls = << >>

\* C9: when the matrix names a peer as group leader, the message goes to that
\* peer by exactly one SendToDirect and nothing else happens: no replica, no
\* local dispatch, the message unchanged
C9_ForwardToLeader ==
  (Finished /\ AtMatrix(frame) /\ ~IsThisNodeGroupLeader(rt, frame.gm_in, GroupId(frame))) =>
    LET leader == GroupLeader(rt, frame.gm_in, GroupId(frame))
    IN /\ RtIsConnected(rt, leader)
       /\ frame.calls = << [op |-> "SendToDirect", peer |-> leader,
                            conn |-> NodeInfo(leader).connection_id,
                            msg |-> Decremented(frame)] >>
       /\ Len(frame.sent) = 1
       /\ frame.sent[1].conn = NodeInfo(leader).connection_id
       /\ frame.log = << >>
       /\ frame.msg = Decremented(frame)
       /\ pc = "done"

\* the matrix named a peer as leader and the message went to it
C9_Witness ==
  /\ pc = "done"
  /\ AtMatrix(frame)
  /\ ~IsThisNodeGroupLeader(rt, frame.gm_in, GroupId(frame))
  /\ Len(frame.sent) = 1
  /\ frame.sent[1].conn \in rt

\* the SendToDirect calls of the run: positions in calls
DirectCalls(f) == { k \in DOMAIN f.calls : f.calls[k].op = "SendToDirect" }

\* call k hands the unchanged message to the leader the matrix names
IsLeaderForward(f, k) ==
  /\ AtMatrix(f)
  /\ ~IsThisNodeGroupLeader(rt, f.gm_in, GroupId(f))
  /\ f.calls[k].peer = GroupLeader(rt, f.gm_in, GroupId(f))
  /\ f.calls[k].msg = Decremented(f)

\* call k is a replica copy sent by this node as group leader
IsReplicaSend(f, k) ==
  /\ Leads(f)
  /\ RtIsConnected(rt, f.calls[k].peer)
  /\ f.calls[k] = ReplicaCall(f, f.calls[k].peer)

\* call k answers a routing request through the bootstrap connection
IsBootstrapSend(f, k) ==
  /\ rt = {}
  /\ f.calls[k].peer = BootstrapConn
  /\ f.calls[k].conn = BootstrapConn
  /\ f.calls[k].msg.routing_message

\* call k is a group-change RPC this node built for a connected peer
IsGroupChangeRpc(f, k) ==
  /\ f.calls[k].msg.type \in {"ClosestNodesUpdate", "ClosestNodesUpdateSubscribe"}
  /\ f.calls[k].msg.source_id = Self
  /\ f.calls[k].msg.destination_id = f.calls[k].peer
  /\ RtIsConnected(rt, f.calls[k].peer)
  /\ f.msg_in.type \in {"ClosestNodesUpdate", "ClosestNodesUpdateSubscribe"}

C7_HeadIsExactPeer ==
  (Finished /\ InPath(frame, "Replicate")) =>
    /\ frame.fault # "ub"
    /\ frame.have =>
         /\ rt # {}
         /\ Head(GetClosestNodes(rt, GroupId(frame), frame.replication)) = GroupId(frame)
    /\ \A k \in DirectCalls(frame) :
         IsCopyOf(frame.calls[k].msg, frame.msg_in)
           => frame.calls[k].peer # GroupId(frame)

(***************************************************************************)
(* The outbound side (SpecSend): what the trace of a send shows.           *)
(***************************************************************************)
\* the transport sends RecursiveSendOn made
RsoSends(f) == { i \in 1..Len(f.sent) : f.sent[i].functor = "RecursiveSendOn" }

\* the route history of the message RecursiveSendOn was called with for send i:
\* the caller's message on the first call, the forwarded copy on a later one
ArrivedHistory(f, i) ==
  IF i = 1 THEN f.msg_in.route_history ELSE f.sent[i].msg.route_history

\* the transport reported result r for send i
Reported(f, i, r) ==
  \E k \in 1..Len(f.done) : f.done[k].send = i /\ f.done[k].result = r

\* all entries but the last of a longer history, the one entry of a history of
\* one unless it is this node
AllButLast(h) ==
  IF Len(h) > 1 THEN { h[k] : k \in 1..(Len(h) - 1) }
  ELSE IF Len(h) = 1 /\ h[1] # Self THEN { h[1] }
  ELSE {}

\* the peers send i could go to
Allowed(f, i) ==
  LET m == f.sent[i].msg
  IN { p \in f.sent[i].rt : /\ p \notin AllButLast(ArrivedHistory(f, i))
                            /\ (m.direct \/ p # TargetOf(m.destination_id)) }

NoDuplicates(h) == \A i, j \in 1..Len(h) : i # j => h[i] # h[j]

\* one node's AdjustRouteHistory: h2 is h1 unchanged when the node is in it, else
\* h1 with the node appended, less its oldest entry when that exceeds H
AdjustedBy(h1, h2, n) ==
  IF n \in Range(h1) THEN h2 = h1
  ELSE IF Len(h1) < MaxRouteHistory THEN h2 = Append(h1, n)
  ELSE h2 = Append(Tail(h1), n)

\* C12: on its way through any nodes, retries included, a message's
\* route_history never holds an id twice and never more than H ids, and every
\* node either leaves it alone (the node is in it) or appends itself and, if
\* that makes more than H entries, removes exactly the oldest.
C12_RouteHistoryBounded ==
  /\ [](/\ NoDuplicates(frame.msg.route_history)
        /\ Len(frame.msg.route_history) <= MaxRouteHistory)
  /\ [][\E n \in NodeIds :
          AdjustedBy(frame.msg.route_history, frame'.msg.route_history, n)]_vars

\* a message that went through more than H nodes: the oldest entries are gone
C12_Witness ==
  /\ Cardinality(Range(frame.path)) > MaxRouteHistory
  /\ Len(frame.msg.route_history) = MaxRouteHistory
  /\ frame.msg.route_history[MaxRouteHistory] = frame.path[Len(frame.path)]
  /\ frame.path[1] \notin Range(frame.msg.route_history)

\* C13 as stated: RecursiveSendOn never sends a message to a peer whose id is in
\* the route_history the message arrived with, on the first attempt or a retry.
C13_NeverBackToHistory ==
  \A i \in RsoSends(frame) :
    frame.sent[i].conn \notin Range(frame.msg_in.route_history)

\* the transport sends and the Remove / on_connection_lost invocations made by
\* the k-th completion callback and the RecursiveSendOn call it makes
SentBy(f, k) ==
  (IF k < Len(f.done) THEN f.done[k + 1].sent ELSE Len(f.sent)) - f.done[k].sent
OpsBy(f, k) ==
  SubSeq(f.ops, f.done[k].ops + 1,
         IF k < Len(f.done) THEN f.done[k + 1].ops ELSE Len(f.ops))

\* the same of the caller's SendToClosestNode
SentByCall(f) == IF f.done = << >> THEN Len(f.sent) ELSE f.done[1].sent
OpsByCall(f) == SubSeq(f.ops, 1, IF f.done = << >> THEN Len(f.ops) ELSE f.done[1].ops)

\* the caller's SendToClosestNode entered RecursiveSendOn with the transport up
CallEnteredRso(f) ==
  /\ Len(f.calls) = 1
  /\ f.calls[1].op = "SendToClosestNode"
  /\ f.msg_in.destination_id # NoId
  /\ ~(f.msg_in.direct /\ NrtIsConnected(nrt, TargetOf(f.msg_in.destination_id)))
  /\ ~stopped
  /\ f.fault = "none"

\* the peers a message with no excluded id may go to
Unexcluded(table, m) ==
  { p \in table : m.direct \/ p # TargetOf(m.destination_id) }

\* the k-th completion is a send failure that makes RecursiveSendOn run again
Retried(f, k) == f.done[k].result = "kSendFailure" /\ ~f.done[k].stopped

\* the Remove and on_connection_lost of one eviction of peer p
Eviction(o, p) ==
  /\ Len(o) = 2
  /\ o[1].op = "Remove" /\ o[1].conn = p
  /\ o[2].op = "OnConnectionLost" /\ o[2].conn = p

\* C14 as stated: with route_history exactly [self] no peer is excluded, this
\* node is never chosen and the message goes to a peer; a RecursiveSendOn that
\* finds no candidate sends nothing, removes no connection, emits no
\* on_connection_lost and leaves route_history unchanged.
C14_SelfEntryNoCandidateNoEffect ==
  /\ \A i \in RsoSends(frame) :
       ArrivedHistory(frame, i) = << Self >> =>
         LET d == TargetOf(frame.sent[i].msg.destination_id)
             hop == frame.sent[i].conn
         IN /\ hop \in Unexcluded(frame.sent[i].rt, frame.sent[i].msg) /\ hop # Self
            /\ \A p \in Unexcluded(frame.sent[i].rt, frame.sent[i].msg) :
                 Xor(hop, d) <= Xor(p, d)
  /\ (CallEnteredRso(frame) /\ frame.msg_in.route_history = << Self >>) =>
       IF Unexcluded(rt, frame.msg_in) = {} /\ frame.done = << >>
         THEN /\ frame.sent = << >> /\ frame.ops = << >>
              /\ frame.msg.route_history = << Self >>
       ELSE SentByCall(frame) = 1
  /\ \A k \in 1..Len(frame.done) :
       LET s == frame.sent[frame.done[k].send]
       IN (Retried(frame, k) /\ s.msg.route_history = << Self >> /\ SentBy(frame, k) = 0
             /\ frame.env.stop = "none" /\ ~stopped)
           => OpsBy(frame, k) = << >>

\* C14: with route_history exactly [self] no peer is excluded, this node is
\* never chosen and the message goes to the closest peer; a RecursiveSendOn that
\* finds no candidate sends nothing and leaves route_history unchanged; it has
\* removed no connection and emitted no on_connection_lost unless it was called
\* with attempt_count >= 3, when it has first removed the last attempted peer's
\* connection and emitted on_connection_lost for it, once each.
C14_SelfEntryNoCandidate ==
  /\ \A i \in RsoSends(frame) :
       ArrivedHistory(frame, i) = << Self >> =>
         LET d == TargetOf(frame.sent[i].msg.destination_id)
             hop == frame.sent[i].conn
         IN /\ hop \in Unexcluded(frame.sent[i].rt, frame.sent[i].msg) /\ hop # Self
            /\ \A p \in Unexcluded(frame.sent[i].rt, frame.sent[i].msg) :
                 Xor(hop, d) <= Xor(p, d)
  /\ (CallEnteredRso(frame) /\ frame.msg_in.route_history = << Self >>) =>
       IF Unexcluded(rt, frame.msg_in) = {} /\ frame.done = << >>
         THEN /\ frame.sent = << >> /\ frame.ops = << >>
              /\ frame.msg.route_history = << Self >>
       ELSE SentByCall(frame) = 1
  /\ \A k \in 1..Len(frame.done) :
       LET s == frame.sent[frame.done[k].send]
           evicts == s.attempt + 1 >= 3
           left == IF evicts THEN frame.done[k].rt \ {s.conn} ELSE frame.done[k].rt
       IN (Retried(frame, k) /\ s.msg.route_history = << Self >>
             /\ Unexcluded(left, s.msg) = {})
           => /\ SentBy(frame, k) = 0
              /\ IF evicts THEN Eviction(OpsBy(frame, k), s.conn)
                 ELSE OpsBy(frame, k) = << >>

\* a message with route_history [self] sent to the only peer three times; the
\* fourth RecursiveSendOn evicts the peer and finds no candidate
C14_Witness ==
  /\ CallEnteredRso(frame) /\ frame.msg_in.route_history = << Self >>
  /\ Len(frame.done) = 3 /\ Retried(frame, 3) /\ SentBy(frame, 3) = 0
  /\ Eviction(OpsBy(frame, 3), frame.sent[3].conn)
  /\ rt = {}

\* Stop had not run by the end of the k-th completion callback
RunningAfter(f, k) ==
  ~(IF k < Len(f.done) THEN f.done[k + 1].stopped ELSE stopped)

\* the peers the message of send i may be sent on to, out of table
Candidates(f, i, table) ==
  LET m == f.sent[i].msg
  IN { p \in table : /\ p \notin AllButLast(m.route_history)
                     /\ (m.direct \/ p # TargetOf(m.destination_id)) }

\* the send that follows the k-th completion is a fresh attempt to the closest
\* of the candidates cand, or there is none when cand is empty
ReRouted(f, k, cand) ==
  LET i == f.done[k].send
      d == TargetOf(f.sent[i].msg.destination_id)
      n == f.done[k].sent + 1
  IN IF cand = {} THEN SentBy(f, k) = 0
     ELSE /\ SentBy(f, k) = 1
          /\ f.sent[n].attempt = 0
          /\ f.sent[n].conn \in cand
          /\ \A p \in cand : Xor(f.sent[n].conn, d) <= Xor(p, d)
          /\ f.sent[n].msg = f.sent[i].msg

\* C15: a peer whose sends fail is tried again with the attempt count one
\* higher and without any removal until its third attempt has failed; then its
\* connection is removed from the transport once, on_connection_lost is emitted
\* for it once, and the message goes, as attempt 0, to the closest peer left.
C15_ThreeAttemptsThenEvict ==
  /\ \A k \in 1..Len(frame.done) :
       LET i == frame.done[k].send
           s == frame.sent[i]
       IN (Retried(frame, k) /\ RunningAfter(frame, k)) =>
            IF s.attempt < 2
              THEN /\ OpsBy(frame, k) = << >>
                   /\ SentBy(frame, k) <= 1
                   /\ SentBy(frame, k) = 1 => frame.sent[i + 1].attempt = s.attempt + 1
            ELSE /\ s.attempt = 2
                 /\ i >= 3 /\ frame.sent[i - 1].attempt = 1 /\ frame.sent[i - 2].attempt = 0
                 /\ Eviction(OpsBy(frame, k), s.conn)
                 /\ ReRouted(frame, k, Candidates(frame, i, frame.done[k].rt \ {s.conn}))
  /\ \A a, b \in 1..Len(frame.ops) :
       (a # b /\ frame.ops[a].op = frame.ops[b].op) => frame.ops[a].conn # frame.ops[b].conn

\* three failed sends to one peer, its eviction, and the message sent to another
C15_Witness ==
  /\ Len(frame.sent) = 4 /\ Len(frame.done) = 3
  /\ \A k \in 1..3 : frame.done[k].send = k /\ Retried(frame, k)
  /\ frame.sent[1].conn = frame.sent[2].conn /\ frame.sent[2].conn = frame.sent[3].conn
  /\ Eviction(frame.ops, frame.sent[3].conn)
  /\ frame.sent[4].conn # frame.sent[3].conn /\ frame.sent[4].attempt = 0
  /\ frame.sent[4].conn \in rt /\ frame.sent[3].conn \notin rt

\* the k-th completion reports an error other than a send failure, transport up
Terminal(f, k) ==
  /\ f.done[k].result \notin {"kSuccess", "kSendFailure"}
  /\ ~f.done[k].stopped
  /\ RunningAfter(f, k)

\* the non-routing-table entries SendToClosestNode would fan the message of the
\* k-th completion out to
FanOutTargets(f, k) ==
  LET m == f.sent[f.done[k].send].msg
  IN IF m.direct THEN NrtGetNodesInfo(f.done[k].nrt, TargetOf(m.destination_id)) ELSE {}

\* C16 as stated: after a terminal transport error the peer's connection is
\* removed once, on_connection_lost is emitted once, and the message is routed
\* again from the top of SendToClosestNode (non-routing-table fan-out first, else
\* RecursiveSendOn with attempt 0); after a success nothing more is sent.
C16_ReroutesFromTop ==
  \A k \in 1..Len(frame.done) :
    LET i == frame.done[k].send
        s == frame.sent[i]
    IN /\ frame.done[k].result = "kSuccess" =>
            SentBy(frame, k) = 0 /\ OpsBy(frame, k) = << >>
       /\ Terminal(frame, k) =>
            /\ Eviction(OpsBy(frame, k), s.conn)
            /\ IF FanOutTargets(frame, k) # {}
                 THEN /\ SentBy(frame, k) = Cardinality(FanOutTargets(frame, k))
                      /\ \A n \in (frame.done[k].sent + 1)..(frame.done[k].sent
                                                              + SentBy(frame, k)) :
                           frame.sent[n].functor = "SendTo"
               ELSE ReRouted(frame, k, Candidates(frame, i, frame.done[k].rt \ {s.conn}))

\* C16: after a terminal transport error the peer's connection is removed once,
\* on_connection_lost is emitted once, and RecursiveSendOn is entered again with
\* the forwarded copy and attempt 0: the message goes to the closest remaining
\* routing-table candidate, whatever the non-routing table holds by then, or
\* nowhere when there is none; after a success nothing more is sent.
C16_TerminalErrorReroutes ==
  \A k \in 1..Len(frame.done) :
    LET i == frame.done[k].send
        s == frame.sent[i]
    IN /\ frame.done[k].result = "kSuccess" =>
            SentBy(frame, k) = 0 /\ OpsBy(frame, k) = << >>
       /\ Terminal(frame, k) =>
            /\ Eviction(OpsBy(frame, k), s.conn)
            /\ ReRouted(frame, k, Candidates(frame, i, frame.done[k].rt \ {s.conn}))
            /\ \A n \in (frame.done[k].sent + 1)..(frame.done[k].sent + SentBy(frame, k)) :
                 frame.sent[n].functor = "RecursiveSendOn"

\* a terminal error on a message for a client that has connected meanwhile: the
\* message goes on to a routing-table peer
C16_Witness ==
  \E k \in 1..Len(frame.done) :
    /\ Terminal(frame, k)
    /\ FanOutTargets(frame, k) # {}
    /\ SentBy(frame, k) = 1
    /\ frame.sent[frame.done[k].sent + 1].conn \in rt
    /\ frame.sent[frame.done[k].send].conn \notin rt

\* C17 as stated: once Stop has set stopped and released the transport, no
\* outbound path of NetworkUtils invokes a transport Send or Remove.
C17_NoTransportUseAfterStop ==
  /\ \A i \in 1..Len(frame.sent) : ~frame.sent[i].after_stop
  /\ \A k \in 1..Len(frame.ops) : frame.ops[k].op = "Remove" => ~frame.ops[k].after_stop

\* a call or completion callback that found the node stopped did nothing
StoppedRunsDoNothing(f) ==
  /\ \A k \in 1..Len(f.done) :
       f.done[k].stopped => SentBy(f, k) = 0 /\ OpsBy(f, k) = << >>
  /\ (f.done = << >> /\ f.sent = << >> /\ stopped
        /\ Len(f.calls) = 1 /\ f.calls[1].op = "SendToClosestNode"
        /\ Cardinality(rt) > 0 /\ f.msg_in.destination_id # NoId
        /\ NrtGetNodesInfo(nrt, TargetOf(f.msg_in.destination_id)) = {})
       => f.ops = << >>

\* C18 as stated: a RecursiveSendOn call or completion callback that finds
\* stopped set sends nothing, removes nothing and emits nothing; no
\* on_connection_lost comes out of the retry or terminal-error path once Stop
\* has completed.
C18_NoConnectionLostAfterStop ==
  /\ StoppedRunsDoNothing(frame)
  /\ \A k \in 1..Len(frame.ops) :
       frame.ops[k].op = "OnConnectionLost" => ~frame.ops[k].after_stop

\* the caller's SendToClosestNode has returned, no completion has been reported
\* yet, and the transport was up throughout
FirstCall(f) ==
  /\ pc = "done"
  /\ Len(f.calls) = 1
  /\ f.calls[1].op = "SendToClosestNode"
  /\ f.done = << >>
  /\ f.fault = "none"

\* the non-routing-table entries the destination of the caller's message matched
\* when SendToClosestNode was called
NrtMatches(f) ==
  IF f.msg_in.destination_id = NoId THEN {}
  ELSE NrtGetNodesInfo(f.nrt_in, TargetOf(f.msg_in.destination_id))

RelayResponse(m) == IsResponse(m) /\ m.relay_id # NoId

\* one transport send, to the relay, of a copy whose destination_id is the relay_id
RelayedOnce(f) ==
  /\ Len(f.sent) = 1
  /\ f.sent[1].functor = "SendTo"
  /\ f.sent[1].conn = f.msg_in.relay_id
  /\ f.sent[1].msg = [f.msg_in EXCEPT !.destination_id = f.msg_in.relay_id]
  /\ f.ops = << >>

\* SendToClosestNode was called with the routing table empty and no matching
\* non-routing-table entry
EmptyTableNoMatch(f) == FirstCall(f) /\ rt = {} /\ NrtMatches(f) = {}

\* C20 as stated: with the routing table empty and no matching
\* non-routing-table entry, a response bearing relay_id is sent toward the relay
\* with destination_id overwritten by relay_id; every other message is dropped
\* with no transport send.
C20_EmptyTableRelaysResponse ==
  EmptyTableNoMatch(frame) =>
    IF RelayResponse(frame.msg_in) THEN RelayedOnce(frame) ELSE frame.sent = << >>

\* C20: a response bearing relay_id is relayed only when it has no
\* destination_id, and then whatever the routing table holds: one send to the
\* relay of a copy whose destination_id is the relay_id.  With the routing table
\* empty and no matching non-routing-table entry every other message, a relay
\* response with a destination_id included, is dropped with no transport send.
C20_RelaysResponseWithoutDestination ==
  /\ (FirstCall(frame) /\ frame.msg_in.destination_id = NoId
                       /\ RelayResponse(frame.msg_in)) => RelayedOnce(frame)
  /\ (EmptyTableNoMatch(frame)
        /\ ~(frame.msg_in.destination_id = NoId /\ RelayResponse(frame.msg_in))) =>
       (frame.sent = << >> /\ frame.ops = << >>)

\* a response with relay_id 2 and no destination_id, routing table empty: the
\* copy goes to peer 2 with destination_id 2
C20_Witness ==
  /\ EmptyTableNoMatch(frame)
  /\ frame.msg_in.destination_id = NoId /\ RelayResponse(frame.msg_in)
  /\ Len(frame.sent) = 1
  /\ frame.sent[1].conn = 2 /\ frame.sent[1].msg.destination_id = 2

(***************************************************************************)
(* The group-change handler (SpecChange).                                  *)
(***************************************************************************)
\* the run just ended handled an inbound request of type t
Handled(f, t) ==
  /\ Finished
  /\ f.path # << >> /\ f.path[1] = "HandleMessage"
  /\ InPath(f, "HandleRoutingMessage")
  /\ f.msg_in.type = t

\* the request is for this node, its payload parses and names a valid node id
WellFormed(m) == m.destination_id = Self /\ m.data = "rpc" /\ m.upd_node \in NodeIds

\* the valid ids among the close nodes the update carries
SuppliedNodes(m) == { n \in m.upd_nodes : n \in NodeIds }

\* the matrix the run started with, the row keyed by p replaced with nodes
RowReplaced(f, p, nodes) ==
  [k \in DOMAIN f.gm_in |-> IF k = p THEN nodes ELSE f.gm_in[k]]

SentOnward(f) ==
  \/ \E i \in 1..Len(f.calls) : IsCopyOf(f.calls[i].msg, f.msg_in)
  \/ \E i \in 1..Len(f.sent) : IsCopyOf(f.sent[i].msg, f.msg_in)

\* C22: processing an inbound ClosestNodesUpdate or ClosestNodesUpdateSubscribe
\* request never sends the request itself onward nor answers it, whatever the
\* outcome of the handler (accepted, wrong destination, payload that does not
\* parse, empty or invalid node id).
C22_RequestNeverSentOnward ==
  \A t \in {"ClosestNodesUpdate", "ClosestNodesUpdateSubscribe"} :
    Handled(frame, t) => ~SentOnward(frame)

\* a well-formed ClosestNodesUpdate whose node list holds no valid id was handled
EmptyUpdate(f) ==
  /\ Handled(f, "ClosestNodesUpdate")
  /\ WellFormed(f.msg_in)
  /\ SuppliedNodes(f.msg_in) = {}

\* the run asked some peer to subscribe
SubscribeRpcSent(f) ==
  \E i \in 1..Len(f.calls) : f.calls[i].msg.type = "ClosestNodesUpdateSubscribe"

\* C23: a ClosestNodesUpdate whose node list is empty or holds no valid id is
\* ignored: the node does not abort, the group matrix is left unchanged and no
\* subscribe RPC is triggered by it.
C23_EmptyUpdateIgnored ==
  EmptyUpdate(frame) =>
    /\ frame.fault = "none"
    /\ gm = frame.gm_in
    /\ ~SubscribeRpcSent(frame)

\* a well-formed subscribe request from peer p was handled to its end
SubscribeHandled(f) ==
  /\ Handled(f, "ClosestNodesUpdateSubscribe")
  /\ WellFormed(f.msg_in) /\ f.msg_in.subscribe
  /\ f.fault = "none"

\* p is on the subscribers list, which is otherwise as the run found it, and the
\* run made one send: a ClosestNodesUpdate to p carrying closest(RT, C)
SubscribedAndUpdated(f, p) ==
  /\ p \in Range(subs)
  /\ subs = IF p \in Range(f.subs_in) THEN f.subs_in ELSE Append(f.subs_in, p)
  /\ Len(f.calls) = 1 /\ Len(f.sent) = 1
  /\ f.calls[1].op = "SendToDirect" /\ f.calls[1].peer = p
  /\ f.calls[1].msg.type = "ClosestNodesUpdate"
  /\ f.calls[1].msg.destination_id = p
  /\ f.calls[1].msg.upd_node = Self
  /\ f.calls[1].msg.upd_nodes = RowKeys(rt)
  /\ f.sent[1].msg = f.calls[1].msg

\* the subscribers list is as the run found it and the run sent nothing
NothingDone(f) == subs = f.subs_in /\ f.calls = << >> /\ f.sent = << >>

\* C24 as stated: on an inbound subscribe from peer p, for any routing-table
\* size, p in the routing table ends on the subscribers list and is sent exactly
\* one ClosestNodesUpdate carrying closest(RT, C); for p not in the routing
\* table the list is unchanged and nothing is sent.
C24_SubscribeAnyTableSize ==
  SubscribeHandled(frame) =>
    IF frame.msg_in.upd_node \in rt THEN SubscribedAndUpdated(frame, frame.msg_in.upd_node)
    ELSE NothingDone(frame)

\* C24: the same when at least closest_nodes_size peers are connected; with
\* fewer, a subscribe changes nothing and nothing is sent, whoever asks.
C24_SubscribeWithFullCloseGroup ==
  SubscribeHandled(frame) =>
    IF frame.msg_in.upd_node \in rt /\ Cardinality(rt) >= ClosestNodesSize
      THEN SubscribedAndUpdated(frame, frame.msg_in.upd_node)
    ELSE NothingDone(frame)

\* peer 3, connected but not among the closest, subscribes at a node with a
\* full close group and a subscriber already: it is appended and updated
C24_Witness ==
  /\ SubscribeHandled(frame)
  /\ frame.msg_in.upd_node = 3 /\ 3 \in rt /\ 3 \notin RowKeys(rt)
  /\ frame.subs_in = << 1 >>
  /\ subs = << 1, 3 >>
  /\ Len(frame.sent) = 1 /\ frame.sent[1].msg.upd_nodes = RowKeys(rt)

\* C25: in every reachable state, whatever the interleaving of Subscribe,
\* Unsubscribe, SendSubscribeRpc and SendClosestNodesUpdateRpcs calls, inbound
\* requests and connection changes, the subscribers list holds no node id twice.
C25_SubscribersDistinct ==
  \A i, j \in 1..Len(subs) : i # j => subs[i] # subs[j]

\* a Subscribe that waited for the mutex while another thread subscribed the
\* same peer and then a second one: the peer is on the list once, in front
C25_Witness ==
  /\ pc = "done" /\ frame.path = << "Subscribe" >>
  /\ frame.subs_in = << >>
  /\ Len(frame.sent) = 1
  /\ Len(subs) = 2
  /\ subs[1] = frame.msg.destination_id

Called(f, name) ==
  /\ pc \in {"done", "crashed"}
  /\ f.path = << name >>

\* one SendToDirect to each peer that was on the subscribers list when the call
\* started, in the order of the list, of a ClosestNodesUpdate carrying nodes
UpdateToEachSubscriber(f, nodes) ==
  /\ Len(f.calls) = Len(f.subs_in)
  /\ Len(f.sent) = Len(f.subs_in)
  /\ \A i \in 1..Len(f.subs_in) :
       /\ f.calls[i].op = "SendToDirect"
       /\ f.calls[i].peer = f.subs_in[i]
       /\ f.calls[i].msg.type = "ClosestNodesUpdate"
       /\ f.calls[i].msg.destination_id = f.subs_in[i]
       /\ f.calls[i].msg.upd_node = Self
       /\ f.calls[i].msg.upd_nodes = nodes
       /\ f.sent[i].msg = f.calls[i].msg

\* C27 as stated: SendClosestNodesUpdateRpcs(close_nodes) sends exactly one
\* ClosestNodesUpdate carrying close_nodes to every peer on the subscribers list
\* at the start of the call, whatever the size of close_nodes, and leaves the
\* list unchanged.
C27_UpdateToAllAnySize ==
  Called(frame, "SendClosestNodesUpdateRpcs") =>
    /\ frame.fault = "none"
    /\ UpdateToEachSubscriber(frame, frame.msg_in.upd_nodes)
    /\ subs = frame.subs_in

\* C27: called with at least closest_nodes_size close nodes it sends one
\* ClosestNodesUpdate carrying them to every peer that was on the subscribers
\* list; called with fewer it sends nothing; the list is unchanged either way.
C27_UpdateToAllWhenFull ==
  (Called(frame, "SendClosestNodesUpdateRpcs") /\ frame.fault = "none") =>
    /\ IF Cardinality(frame.msg_in.upd_nodes) >= ClosestNodesSize
         THEN UpdateToEachSubscriber(frame, frame.msg_in.upd_nodes)
       ELSE frame.calls = << >> /\ frame.sent = << >>
    /\ subs = frame.subs_in

\* two subscribers, closest_nodes_size close nodes: two updates
C27_Witness ==
  /\ Called(frame, "SendClosestNodesUpdateRpcs") /\ frame.fault = "none"
  /\ Cardinality(frame.msg_in.upd_nodes) = ClosestNodesSize
  /\ Len(frame.subs_in) = 2
  /\ Len(frame.sent) = 2
  /\ frame.sent[1].conn # frame.sent[2].conn

\* the peers whose row in the group matrix holds this node
NeedingGroupUpdates == { k \in DOMAIN gm : Self \in gm[k] }

\* one subscribe (or unsubscribe) request to each peer of the set, and no other send
RpcToEach(f, peers, subscribe) ==
  /\ Len(f.calls) = Cardinality(peers)
  /\ Len(f.sent) = Cardinality(peers)
  /\ { f.calls[i].peer : i \in 1..Len(f.calls) } = peers
  /\ \A i \in 1..Len(f.calls) :
       /\ f.calls[i].op = "SendToDirect"
       /\ f.calls[i].msg.type = "ClosestNodesUpdateSubscribe"
       /\ f.calls[i].msg.destination_id = f.calls[i].peer
       /\ f.calls[i].msg.upd_node = Self
       /\ f.calls[i].msg.subscribe = subscribe
       /\ f.sent[i].msg = f.calls[i].msg

\* the subscribers list the call found, without n
Without(list, n) == SelectSeq(list, LAMBDA x : x # n)

\* C28: SendSubscribeRpc(true, _) sends one subscribe request to every peer
\* GetNodesNeedingGroupUpdates returns and leaves the subscribers list unchanged;
\* SendSubscribeRpc(false, n) sends exactly one unsubscribe request, to n, and
\* afterwards n is not on the list while every other entry is kept, whether or
\* not n was a subscriber before the call.
C28_SubscribeRpcEffects ==
  Called(frame, "SendSubscribeRpc") =>
    /\ frame.fault = "none"
    /\ IF frame.msg_in.subscribe
         THEN RpcToEach(frame, NeedingGroupUpdates, TRUE) /\ subs = frame.subs_in
       ELSE /\ RpcToEach(frame, {frame.msg_in.destination_id}, FALSE)
            /\ subs = Without(frame.subs_in, frame.msg_in.destination_id)

(***************************************************************************)
(* The transport between a peer and this node (SpecOrder).                 *)
(***************************************************************************)
\* every update the peer has sent has been delivered and handled
Quiet ==
  /\ net.posted = << >> /\ net.sending = {}
  /\ net.slots = << >> /\ net.receiving = {}

\* C29: the ClosestNodesUpdate messages of one sender are applied to this
\* node's group matrix in the order they were sent: once every update the sender
\* issued has been handled, the row for the sender equals the last one issued,
\* in every interleaving of the transport's send and delivery threads.
C29_AppliedInSendOrder ==
  (Quiet /\ net.issued # << >> /\ OrderPeer \in DOMAIN gm) =>
    gm[OrderPeer] = net.issued[Len(net.issued)]

(***************************************************************************)
(* Eviction and the subscribers (SpecEvict).                               *)
(***************************************************************************)
\* the peer has received a ClosestNodesUpdate of this node carrying the nodes
ReceivedUpdate(peer, nodes) ==
  \E i \in 1..Len(net.slots) :
    /\ net.slots[i].msg.type = "ClosestNodesUpdate"
    /\ net.slots[i].msg.destination_id = peer
    /\ net.slots[i].msg.upd_nodes = nodes

\* the peer has received an unsubscribe of this node
ReceivedUnsubscribe(peer) ==
  \E i \in 1..Len(net.slots) :
    /\ net.slots[i].msg.type = "ClosestNodesUpdateSubscribe"
    /\ net.slots[i].msg.destination_id = peer
    /\ ~net.slots[i].msg.subscribe

\* an eviction that changed the close nodes is being handled
EvictionChangedClosest ==
  /\ pc = "evicting"
  /\ frame.msg.upd_nodes # Range(GetClosestNodeInfo(rt, ClosestNodesSize))

\* every subscriber has received the close nodes there are now, and the
\* evicted peer an unsubscribe
Coherent ==
  /\ Evicted(frame)
  /\ \A s \in Range(subs) :
       ReceivedUpdate(s, Range(GetClosestNodeInfo(rt, ClosestNodesSize)))
  /\ ReceivedUnsubscribe(frame.msg.destination_id)

\* C30: after a peer is evicted from this node's routing table so that its
\* closest nodes change, and with no further change of the tables, eventually
\* every subscriber of this node has received a ClosestNodesUpdate carrying
\* the new closest nodes and the evicted peer has received an unsubscribe.
C30_EvictionCoherence == EvictionChangedClosest ~> Coherent

(***************************************************************************)
(* Messages for this node, client mode, the non-routing table (Spec).      *)
(***************************************************************************)
\* a response that bears the relay_id of another node
RelayedResponse(m) == ~m.request /\ m.relay_id \notin {NoId, Self}

\* deliveries to the routing service, the timer or the application
LocalDeliveries(f) == { i \in DOMAIN f.log : f.log[i].kind \in {"service", "timer", "app"} }

\* the handler entered right after the first entry of h, "none" when h is last
NextInPath(f, h) ==
  LET k == CHOOSE i \in DOMAIN f.path : f.path[i] = h /\ \A j \in 1..(i - 1) : f.path[j] # h
  IN IF k < Len(f.path) THEN f.path[k + 1] ELSE "none"

\* the run cleared destination_id and sent the message once, to relay_id, with
\* destination_id set to relay_id, and delivered nothing locally
RelayedToOriginator(f) ==
  /\ LocalDeliveries(f) = {}
  /\ f.msg.destination_id = NoId
  /\ Len(f.sent) = 1
  /\ f.sent[1].conn = f.msg_in.relay_id
  /\ f.sent[1].msg.destination_id = f.msg_in.relay_id
  /\ IsCopyOf(f.sent[1].msg, f.msg_in)

\* the received message itself, not a reply built during the run, reached
\* HandleMessageForThisNode
ReceivedAtThisNode(f) ==
  \E k \in DOMAIN f.path :
    /\ f.path[k] = "HandleMessageForThisNode"
    /\ \A j \in 2..(k - 1) : f.path[j] \in {"StoreCacheCopy", "HandleRelayRequest"}

\* the run went on to the routing dispatch or to the node-level handler
HandledLocally(f) ==
  /\ InPath(f, "HandleMessageForThisNode")
  /\ NextInPath(f, "HandleMessageForThisNode")
       \in {"HandleRoutingMessage", "HandleNodeLevelMessageForThisNode"}

ServiceDeliveries(f) == { i \in DOMAIN f.log : f.log[i].kind = "service" }

\* deliveries upward: to the application or to the timer that holds its requests
UpwardDeliveries(f) == { i \in DOMAIN f.log : f.log[i].kind \in {"app", "timer"} }

\* C32: a node in client mode never relays foreign traffic: a message with empty
\* source_id is dropped with no send and no delivery; an application message
\* whose destination_id is not this node causes no transport send and no
\* application delivery; only routing messages reach the routing service and
\* only application messages addressed to this node are delivered upward.
C32_ClientNeverRelays ==
  (Finished /\ client_mode) =>
    LET m == frame.msg_in
    IN /\ m.source_id = NoId => frame.sent = << >> /\ LocalDeliveries(frame) = {}
       /\ (~m.routing_message /\ m.destination_id # Self) =>
            frame.sent = << >> /\ UpwardDeliveries(frame) = {}
       /\ ServiceDeliveries(frame) # {} => m.routing_message
       /\ UpwardDeliveries(frame) # {} => ~m.routing_message /\ m.destination_id = Self

C32_Witness ==
  /\ Finished /\ client_mode /\ rt # {}
  /\ InPath(frame, "HandleClientMessage")
  /\ ~frame.msg_in.routing_message /\ frame.msg_in.destination_id = 1
  /\ frame.msg_in.source_id = 1
  /\ frame.sent = << >>

\* the received message itself reached handler h straight from HandleMessage
ReceivedAt(f, h) ==
  \E k \in DOMAIN f.path :
    /\ f.path[k] = h
    /\ \A j \in 2..(k - 1) : f.path[j] = "StoreCacheCopy"

\* one SendToClosestNode, which sent the received message once to every
\* non-routing-table entry of its destination and nowhere else
ForwardedToClient(f) ==
  /\ Len(f.calls) = 1 /\ f.calls[1].op = "SendToClosestNode"
  /\ NrtMatches(f) # {}
  /\ Len(f.sent) = Cardinality(NrtMatches(f))
  /\ \A i \in 1..Len(f.sent) :
       /\ IsCopyOf(f.sent[i].msg, f.msg_in)
       /\ \E e \in NrtMatches(f) : f.sent[i].conn = e.node_id

\* a request the handler lets through: the client's own, addressed to itself
ClientOwnRequest(m) == m.client_node /\ m.source_id = m.destination_id

\* C33 (as stated): every valid direct message, request or response, that
\* reaches guard 11 with its destination_id in the non-routing table is
\* forwarded by SendToClosestNode to the client's connections; none is dropped.
C33_ForwardsEveryDirect ==
  (Finished /\ ReceivedAt(frame, "HandleMessageForNonRoutingNodes")) =>
    ForwardedToClient(frame)

\* C33: of the valid direct messages that reach guard 11 with their
\* destination_id in the non-routing table, every response, and every request
\* that carries client_node and whose source_id equals its destination_id, is
\* forwarded by SendToClosestNode to the client's connections; every other
\* request is dropped with no send.
C33_ForwardsResponsesAndOwnRequests ==
  (Finished /\ ReceivedAt(frame, "HandleMessageForNonRoutingNodes")) =>
    IF frame.msg_in.request /\ ~ClientOwnRequest(frame.msg_in)
      THEN frame.calls = << >> /\ frame.sent = << >>
    ELSE ForwardedToClient(frame)

C33_Witness ==
  /\ Finished /\ ReceivedAt(frame, "HandleMessageForNonRoutingNodes")
  /\ frame.msg_in.request /\ ClientOwnRequest(frame.msg_in)
  /\ rt # {}
  /\ Len(frame.sent) = 1 /\ frame.sent[1].conn = ClientId

(***************************************************************************)
(* The far node (SpecFar).                                                 *)
(***************************************************************************)
\* the route history after this node has forwarded: this node appended unless
\* it is there already, the oldest entry dropped when there are too many
WithThisNode(h) ==
  IF Self \in Range(h) THEN h
  ELSE IF Len(h) + 1 > MaxRouteHistory THEN Append(Tail(h), Self)
  ELSE Append(h, Self)

\* the routing-table peers the nodes of the route history leave to choose from
NotInHistory(f) ==
  { p \in rt : /\ p \notin Range(f.msg_in.route_history)
               /\ (f.msg_in.direct \/ p # TargetOf(f.msg_in.destination_id)) }

\* one transport send, to peer next, of the received message with one hop less
\* and this node in its route history; nothing delivered locally
ForwardedOnceTo(f, next) ==
  /\ Len(f.sent) = 1
  /\ f.sent[1].conn = next
  /\ f.sent[1].msg.data = f.msg_in.data
  /\ f.sent[1].msg.id = f.msg_in.id
  /\ f.sent[1].msg.hops_to_live = f.msg_in.hops_to_live - 1
  /\ f.sent[1].msg.route_history = WithThisNode(f.msg_in.route_history)
  /\ LocalDeliveries(f) = {}
  /\ Deliveries(f) = {}

\* C34: a message handled as far node results in exactly one transport send, to
\* the routing-table peer closest to the destination among those the route
\* history does not exclude, with the payload unchanged, hops_to_live one less
\* than received and this node's id in route_history; nothing is delivered locally.
C34_FarNodeForwardsOnce ==
  (Finished /\ ReceivedAt(frame, "HandleMessageAsFarNode")) =>
    /\ NotInHistory(frame) # {}
    /\ ForwardedOnceTo(frame, ClosestOf(NotInHistory(frame),
                                        TargetOf(frame.msg_in.destination_id)))

(***************************************************************************)
(* Retries and the peer they give up (SpecSend).                           *)
(***************************************************************************)
\* C35: the connection RecursiveSendOn tears down when the attempt count reaches
\* 3 belongs to the peer to which this message's send reported send-failure on
\* each of the 3 preceding attempts: every retry goes to the peer the attempt
\* before it went to, so no peer is evicted after fewer than 3 failures of its own.
C35_EvictedPeerFailedThrice ==
  /\ \A i \in RsoSends(frame) :
       frame.sent[i].attempt > 0 =>
         i > 1 /\ frame.sent[i].conn = frame.sent[i - 1].conn
  /\ \A k \in 1..Len(frame.done) :
       LET i == frame.done[k].send
           s == frame.sent[i]
       IN (Retried(frame, k) /\ s.attempt = 2 /\ OpsBy(frame, k) # << >>) =>
            /\ i >= 3
            /\ OpsBy(frame, k)[1].op = "Remove" /\ OpsBy(frame, k)[1].conn = s.conn
            /\ \A j \in (i - 2)..i :
                 frame.sent[j].conn = s.conn /\ Reported(frame, j, "kSendFailure")

(***************************************************************************)
(* Relay requests sent on (SpecGroup).                                     *)
(***************************************************************************)
\* the transport sends of the run that pass the received message on
CopiesSent(f) == { i \in 1..Len(f.sent) : IsCopyOf(f.sent[i].msg, f.msg_in) }

\* C36: every relay request (a message received with empty source_id) that a
\* vault sends on to another node carries source_id equal to this node's id and
\* the relay_id it came with, on every forwarding path; the copy dispatched
\* locally after the replication fan-out has its source_id cleared again.
C36_RelayRequestStamped ==
  (Finished /\ ~client_mode /\ ReceivedAt(frame, "HandleRelayRequest")) =>
    /\ \A i \in CopiesSent(frame) :
         /\ frame.sent[i].msg.source_id = Self
         /\ frame.sent[i].msg.relay_id = frame.msg_in.relay_id
    /\ InPath(frame, "Replicate") =>
         \A i \in LocalDeliveries(frame) : frame.log[i].msg.source_id = NoId

(***************************************************************************)
(* What the routing dispatch sends on (Spec).                              *)
(***************************************************************************)
\* the run ended in HandleRoutingMessage, without a fault
DispatchedRouting(f) ==
  /\ f.path # << >> /\ f.path[Len(f.path)] = "HandleRoutingMessage"
  /\ f.fault = "none"

\* the calls that handed the message, as the service left it, to NetworkUtils
SendsOfTheMessage(f) == { k \in 1..Len(f.calls) : f.calls[k].msg = f.msg }

\* the message was a request of a known type on arrival and is still initialized
ToBeSentOn(f) ==
  /\ f.msg_in.request
  /\ f.msg_in.type \in {"Ping", "ClosestNodesUpdate", "ClosestNodesUpdateSubscribe"}
  /\ f.msg.initialized

\* C37: after HandleRoutingMessage has dispatched a routing message to its
\* service, the message is sent on only when it was a request on arrival and is
\* still initialized: by SendToDirect to the bootstrap connection when the
\* routing table is empty, otherwise by SendToClosestNode, and that as the last
\* thing the run does; a response, a message its handler cleared, or a message
\* of unknown type causes no send of the message.
C37_SentOnOnlyIfRequestAndInitialized ==
  (Finished /\ DispatchedRouting(frame)) =>
    IF ToBeSentOn(frame)
      THEN /\ SendsOfTheMessage(frame) = {Len(frame.calls)}
           /\ LET call == frame.calls[Len(frame.calls)]
              IN IF rt = {}
                   THEN /\ call.op = "SendToDirect"
                        /\ call.peer = BootstrapConn /\ call.conn = BootstrapConn
                 ELSE call.op = "SendToClosestNode"
    ELSE /\ SendsOfTheMessage(frame) = {}
         /\ \A i \in 1..Len(frame.sent) : frame.sent[i].msg # frame.msg

C37_Witness ==
  /\ Finished /\ DispatchedRouting(frame) /\ ToBeSentOn(frame)
  /\ rt = {}
  /\ Len(frame.calls) = 1 /\ frame.calls[1].conn = BootstrapConn

(***************************************************************************)
(* The subscribe and update requests between two nodes (SpecExchange).     *)
(***************************************************************************)
\* no subscribe or update request is on its way between the two nodes
NothingInFlight == net.to_peer = << >> /\ net.from_peer = << >>

\* C38: with no topology change, the exchange of subscribe and update requests
\* between two connected nodes comes to rest: once the first request is sent,
\* there comes a moment after which no ClosestNodesUpdate and no
\* ClosestNodesUpdateSubscribe is on its way between them.
C38_ExchangeComesToRest == (net.issued # << >>) ~> [] NothingInFlight

(***************************************************************************)
(* Stop beside the handlers of sends (SpecStop).                           *)
(***************************************************************************)
\* C39: NetworkUtils::Stop always returns: once it holds the write guard and
\* waits for the threads of the transport, it is over in the end, whatever
\* handlers of sends are running or queued on those threads.
C39_StopReturns == (pc = "joining") ~> (pc = "done")

(***************************************************************************)
(* Unsubscribe (SpecChange).                                               *)
(***************************************************************************)
\* C40: Unsubscribe(p) takes the entry for p, and no other entry, off the
\* subscribers list; when p is not on a list that is not empty, the list is left
\* as it was; in both cases the call completes without fault.
C40_UnsubscribeRemovesOnlyThat ==
  Called(frame, "Unsubscribe") =>
    /\ frame.fault = "none"
    /\ subs = Without(frame.subs_in, frame.msg_in.destination_id)

====
